---- MODULE Spec2Model ----
(***************************************************************************)
(* A model of bkg.py: the backgammon rules engine (BackgammonGame), the    *)
(* turn-sequence enumerator, the sampled minimax search and the game loop. *)
(*                                                                         *)
(* A game object is a record with the fields of BackgammonGame.  board is  *)
(* a tuple of 24 signed counts (white positive, black negative), a move is *)
(* a pair <<src, dst>>; the source 'bar' is BAR and the destination 'off'  *)
(* is OFF.  Python lists are sequences, list(set(...)) is a set.           *)
(***************************************************************************)
EXTENDS Integers, Sequences, FiniteSets, TLC

VARIABLES
  game,          \* the game object of main_play_vs_ai (or the object under test)
  human_player,  \* the colour the human chose; the AI has the other one
  turn_count,    \* main_play_vs_ai's turn counter
  pc,            \* the position in the game loop
  op             \* the last operation: its name, arguments, result, and the object before it

vars == <<game, human_player, turn_count, pc, op>>

BAR == 0
OFF == 25
NoDie == 0
None == "None"
ERROR == "ERROR"

Sign(player) == IF player = "w" THEN 1 ELSE -1
Abs(n) == IF n < 0 THEN -n ELSE n
Opponent(player) == IF player = "w" THEN "b" ELSE "w"
Min2(a, b) == IF a < b THEN a ELSE b
Max2(a, b) == IF a > b THEN a ELSE b

\* the sum, and the concatenation, of s[lo] .. s[hi], by halves
RECURSIVE SumRange(_, _, _)
SumRange(s, lo, hi) ==
  IF lo > hi THEN 0
  ELSE IF lo = hi THEN s[lo]
  ELSE SumRange(s, lo, (lo + hi) \div 2) + SumRange(s, (lo + hi) \div 2 + 1, hi)

SumSeq(s) == SumRange(s, 1, Len(s))

RECURSIVE FlattenRange(_, _, _)
FlattenRange(ss, lo, hi) ==
  IF lo > hi THEN <<>>
  ELSE IF lo = hi THEN ss[lo]
  ELSE FlattenRange(ss, lo, (lo + hi) \div 2) \o FlattenRange(ss, (lo + hi) \div 2 + 1, hi)

Flatten(ss) == FlattenRange(ss, 1, Len(ss))

SeqToSet(s) == {s[i] : i \in 1..Len(s)}
InSeq(x, s) == \E i \in 1..Len(s) : s[i] = x

\* list.remove(x): drops the first occurrence of x
RemoveFirst(s, x) ==
  LET i == CHOOSE k \in 1..Len(s) : s[k] = x /\ \A j \in 1..(k - 1) : s[j] /= x
  IN  [k \in 1..(Len(s) - 1) |-> IF k < i THEN s[k] ELSE s[k + 1]]

\* sorted(list of dice), ascending
RECURSIVE SortAsc(_)
SortAsc(s) ==
  IF s = <<>> THEN <<>>
  ELSE LET m == CHOOSE x \in SeqToSet(s) : \A y \in SeqToSet(s) : x <= y
       IN  <<m>> \o SortAsc(RemoveFirst(s, m))

p_bar_of(player, gs) == IF player = "w" THEN gs.white_bar ELSE gs.black_bar
p_off_of(player, gs) == IF player = "w" THEN gs.white_off ELSE gs.black_off

-----------------------------------------------------------------------------
(* BackgammonGame: pure queries *)

\* the starting layout with a white checker missing on point 12
InitialBoard_short ==
  << 2, 0, 0, 0, 0, -5, 0, -3, 0, 0, 0, 4,
     -5, 0, 0, 0, 3, 0, 5, 0, 0, 0, 0, -2 >>

InitialBoard ==
  << 2, 0, 0, 0, 0, -5, 0, -3, 0, 0, 0, 5,
     -5, 0, 0, 0, 3, 0, 5, 0, 0, 0, 0, -2 >>

\* calculate_pip in which a checker on the bar counts 24
calculate_pip_bar_24(player, gs) ==
  SumSeq([pos \in 1..24 |->
            IF gs.board[pos] * Sign(player) > 0
              THEN (IF player = "w" THEN 25 - pos ELSE pos) * Abs(gs.board[pos]) ELSE 0])
  + p_bar_of(player, gs) * 24

\* lines 117-131
calculate_pip(player, gs) ==
  LET p_sign == Sign(player)
      dist(pos) == IF player = "w" THEN 25 - pos ELSE pos
  IN  SumSeq([pos \in 1..24 |->
                IF gs.board[pos] * p_sign > 0
                  THEN dist(pos) * Abs(gs.board[pos]) ELSE 0])
      + p_bar_of(player, gs) * 25

get_total_checker_count(gs) ==
  LET w_board == SumSeq([i \in 1..24 |-> IF gs.board[i] > 0 THEN gs.board[i] ELSE 0])
      b_board == SumSeq([i \in 1..24 |-> IF gs.board[i] < 0 THEN Abs(gs.board[i]) ELSE 0])
  IN  << w_board + gs.white_bar + gs.white_off,
         b_board + gs.black_bar + gs.black_off >>

\* is_game_over sets winner as a side effect; this is its return value
is_game_over(gs) == gs.white_off >= 15 \/ gs.black_off >= 15

\* the object after is_game_over() ran on it
after_is_game_over(gs) ==
  IF gs.white_off >= 15 THEN [gs EXCEPT !.winner = "w"]
  ELSE IF gs.black_off >= 15 THEN [gs EXCEPT !.winner = "b"]
  ELSE gs

\* board_tuple in which the dice field of the object is part of the key
board_tuple_with_dice(gs) ==
  << gs.board, gs.white_bar, gs.black_bar, gs.white_off, gs.black_off,
     gs.current_player, gs.dice >>

\* lines 143-148
board_tuple(gs) ==
  << gs.board, gs.white_bar, gs.black_bar, gs.white_off, gs.black_off,
     gs.current_player >>

\* _check_all_pieces_home without the look at the bar
_check_all_pieces_home_ignoring_bar(player, game_state) ==
  \A pos \in (IF player = "w" THEN 1..18 ELSE 7..24) :
    ~(game_state.board[pos] * Sign(player) > 0)

\* lines 189-200
_check_all_pieces_home(player, game_state) ==
  LET p_sign == Sign(player)
      outside_range == IF player = "w" THEN 1..18 ELSE 7..24
  IN  IF p_bar_of(player, game_state) > 0 THEN FALSE
      ELSE \A pos \in outside_range : ~(game_state.board[pos] * p_sign > 0)

\* _can_bear_off that lets a greater die bear off whatever is behind
_can_bear_off_unchecked(player, checker_pos, die_value, game_state) ==
  /\ (IF player = "w" THEN 19 ELSE 1) <= checker_pos
  /\ checker_pos <= (IF player = "w" THEN 24 ELSE 6)
  /\ die_value >= (IF player = "w" THEN 25 - checker_pos ELSE checker_pos)

\* lines 202-225
_can_bear_off(player, checker_pos, die_value, game_state) ==
  LET p_sign == Sign(player)
      home_start == IF player = "w" THEN 19 ELSE 1
      home_end == IF player = "w" THEN 24 ELSE 6
      target_point_for_exact_off == IF player = "w" THEN 25 ELSE 0
      required_dist == Abs(target_point_for_exact_off - checker_pos)
      is_overshoot == (player = "w" /\ checker_pos + die_value > 24)
                      \/ (player = "b" /\ checker_pos - die_value < 1)
      check_behind_range == IF player = "w" THEN home_start..(checker_pos - 1)
                            ELSE (checker_pos + 1)..home_end
  IN  IF ~(home_start <= checker_pos /\ checker_pos <= home_end) THEN FALSE
      ELSE IF die_value = required_dist THEN TRUE
      ELSE IF is_overshoot /\ die_value > required_dist
        THEN \A p \in check_behind_range : ~(game_state.board[p] * p_sign > 0)
      ELSE FALSE

\* the nominal die of a move, NoDie for Python's None
_get_die_for_move(src, dst, player) ==
  IF src /= BAR /\ dst /= OFF THEN
    LET diff == IF player = "w" THEN dst - src ELSE src - dst
    IN  IF 1 <= diff /\ diff <= 6 THEN diff ELSE NoDie
  ELSE IF src = BAR /\ dst /= OFF THEN
    LET die == IF player = "w" THEN dst ELSE 25 - dst
    IN  IF 1 <= die /\ die <= 6 THEN die ELSE NoDie
  ELSE IF src /= BAR /\ dst = OFF THEN
    IF player = "w" /\ ~(19 <= src /\ src <= 24) THEN NoDie
    ELSE IF player = "b" /\ ~(1 <= src /\ src <= 6) THEN NoDie
    ELSE LET needed == IF player = "w" THEN 25 - src ELSE src
         IN  IF 1 <= needed /\ needed <= 6 THEN needed ELSE NoDie
  ELSE NoDie

\* is_allowed_point without the block rule
is_allowed_point_always(player, dest_count) == TRUE

\* the test of lines 258-259 and 275-276: the point is free, own, or a blot
is_allowed_point(player, dest_count) ==
  (dest_count * Sign(player) >= 0) \/ (Abs(dest_count) = 1)

\* bar_entry_moves with white's entry point for both colours
bar_entry_moves_unmirrored(player, die_value, current_state) ==
  IF is_allowed_point(player, current_state.board[die_value])
    THEN << <<BAR, die_value>> >>
    ELSE <<>>

\* lines 253-262: the player has a checker on the bar
bar_entry_moves(player, die_value, current_state) ==
  LET entry_point == IF player = "w" THEN die_value ELSE 25 - die_value
  IN  IF 1 <= entry_point /\ entry_point <= 24
         /\ is_allowed_point(player, current_state.board[entry_point])
        THEN << <<BAR, entry_point>> >>
        ELSE <<>>

\* point_moves that takes a blot for a block
point_moves_no_hit(player, die_value, current_state, pos) ==
  LET p_sign == Sign(player)
      dest_point == IF player = "w" THEN pos + die_value ELSE pos - die_value
  IN  IF ~(current_state.board[pos] * p_sign > 0) THEN <<>>
      ELSE IF 1 <= dest_point /\ dest_point <= 24 THEN
        IF current_state.board[dest_point] * p_sign >= 0
          THEN << <<pos, dest_point>> >> ELSE <<>>
      ELSE IF _check_all_pieces_home(player, current_state)
              /\ _can_bear_off(player, pos, die_value, current_state)
        THEN << <<pos, OFF>> >>
      ELSE <<>>

\* one iteration of the loop of lines 265-281: the moves of the checker on pos
point_moves(player, die_value, current_state, pos) ==
  LET p_sign == Sign(player)
      dest_point == IF player = "w" THEN pos + die_value ELSE pos - die_value
  IN  IF ~(current_state.board[pos] * p_sign > 0) THEN <<>>
      ELSE IF 1 <= dest_point /\ dest_point <= 24 THEN
        IF is_allowed_point(player, current_state.board[dest_point])
          THEN << <<pos, dest_point>> >> ELSE <<>>
      ELSE IF _check_all_pieces_home(player, current_state)
              /\ _can_bear_off(player, pos, die_value, current_state)
        THEN << <<pos, OFF>> >>
      ELSE <<>>

\* the list of moves, in the order the code appends them (pos = 1..24)
_get_single_moves_for_die(player, die_value, current_state) ==
  IF p_bar_of(player, current_state) > 0
    THEN bar_entry_moves(player, die_value, current_state)
    ELSE Flatten([pos \in 1..24 |->
                    point_moves(player, die_value, current_state, pos)])

-----------------------------------------------------------------------------
(* BackgammonGame.make_move_base_logic: the move without dice bookkeeping. *)
(* The result is [ok |-> the return value, st |-> the object afterwards].  *)

\* lines 453-465: take the checker from the source
base_take_source(gs, player_base, src_base) ==
  LET p_sign == Sign(player_base)
  IN  IF src_base = BAR THEN
        IF player_base = "w" THEN
          IF gs.white_bar > 0
            THEN [ok |-> TRUE, st |-> [gs EXCEPT !.white_bar = @ - 1]]
            ELSE [ok |-> FALSE, st |-> gs]
        ELSE
          IF gs.black_bar > 0
            THEN [ok |-> TRUE, st |-> [gs EXCEPT !.black_bar = @ - 1]]
            ELSE [ok |-> FALSE, st |-> gs]
      ELSE IF src_base \in 1..24 THEN
        IF gs.board[src_base] * p_sign <= 0
          THEN [ok |-> FALSE, st |-> gs]
          ELSE [ok |-> TRUE, st |-> [gs EXCEPT !.board[src_base] = @ - p_sign]]
      ELSE [ok |-> FALSE, st |-> gs]

\* base_put_destination in which a hit adds to the point instead of taking it
base_put_destination_adding(s, player_base, src_base, dst_base) ==
  IF dst_base = OFF THEN
    [ok |-> TRUE,
     st |-> IF player_base = "w" THEN [s EXCEPT !.white_off = @ + 1]
            ELSE [s EXCEPT !.black_off = @ + 1]]
  ELSE IF s.board[dst_base] * Sign(player_base) < 0 /\ Abs(s.board[dst_base]) >= 2 THEN
    [ok |-> FALSE, st |-> s]
  ELSE IF s.board[dst_base] * Sign(player_base) < 0 THEN
    [ok |-> TRUE,
     st |-> IF player_base = "w"
              THEN [s EXCEPT !.black_bar = @ + 1, !.board[dst_base] = @ + Sign(player_base)]
              ELSE [s EXCEPT !.white_bar = @ + 1, !.board[dst_base] = @ + Sign(player_base)]]
  ELSE [ok |-> TRUE, st |-> [s EXCEPT !.board[dst_base] = @ + Sign(player_base)]]

\* lines 467-492: put it on the destination; s is the object after the source step
base_put_destination(s, player_base, src_base, dst_base) ==
  LET p_sign == Sign(player_base)
  IN  IF dst_base = OFF THEN
        [ok |-> TRUE,
         st |-> IF player_base = "w" THEN [s EXCEPT !.white_off = @ + 1]
                ELSE [s EXCEPT !.black_off = @ + 1]]
      ELSE IF dst_base \in 1..24 THEN
        LET dest_count == s.board[dst_base]
        IN  IF dest_count * p_sign < 0 /\ Abs(dest_count) >= 2 THEN
              \* line 476 restores a board source only; a bar source stays taken
              [ok |-> FALSE,
               st |-> IF src_base /= BAR THEN [s EXCEPT !.board[src_base] = @ + p_sign]
                      ELSE s]
            ELSE IF dest_count * p_sign < 0 /\ Abs(dest_count) = 1 THEN
              [ok |-> TRUE,
               st |-> IF player_base = "w"
                        THEN [s EXCEPT !.black_bar = @ + 1, !.board[dst_base] = p_sign]
                        ELSE [s EXCEPT !.white_bar = @ + 1, !.board[dst_base] = p_sign]]
            ELSE [ok |-> TRUE, st |-> [s EXCEPT !.board[dst_base] = @ + p_sign]]
      ELSE
        [ok |-> FALSE,
         st |-> IF src_base /= BAR THEN [s EXCEPT !.board[src_base] = @ + p_sign]
                ELSE IF player_base = "w" THEN [s EXCEPT !.white_bar = @ + 1]
                ELSE [s EXCEPT !.black_bar = @ + 1]]

make_move_base_logic(gs, player_base, src_base, dst_base) ==
  LET taken == base_take_source(gs, player_base, src_base)
  IN  IF ~taken.ok THEN taken
      ELSE base_put_destination(taken.st, player_base, src_base, dst_base)

-----------------------------------------------------------------------------
(* BackgammonGame._get_strictly_playable_dice and get_legal_actions *)

\* sorted(list(set(dice_list)), reverse=True)
RECURSIVE SortDescSet(_)
SortDescSet(S) ==
  IF S = {} THEN <<>>
  ELSE LET m == CHOOSE x \in S : \A y \in S : x >= y
       IN  <<m>> \o SortDescSet(S \ {m})

\* lines 292-296: the dice of the roll that have a single move, largest first
individually_playable_dice(current_state_obj, dice_list, player) ==
  SelectSeq(SortDescSet(SeqToSet(dice_list)),
            LAMBDA die : _get_single_moves_for_die(player, die, current_state_obj) /= <<>>)

\* lines 314-321 (and 326-333): the move succeeded and second_die has a move
leaves_a_move(temp_game, player, second_die) ==
  temp_game.ok /\ _get_single_moves_for_die(player, second_die, temp_game.st) /= <<>>

\* lines 313-321 and 325-333: some move of moves leaves a move for second_die
some_move_leaves_a_move(current_state_obj, player, moves, second_die) ==
  \E i \in 1..Len(moves) :
    leaves_a_move(make_move_base_logic(current_state_obj, player, moves[i][1], moves[i][2]),
                  player, second_die)

\* can_play_in_order that finds no order
can_play_in_order_never(current_state_obj, player, first_die, second_die) == FALSE

can_play_in_order(current_state_obj, player, first_die, second_die) ==
  some_move_leaves_a_move(current_state_obj, player,
                          _get_single_moves_for_die(player, first_die, current_state_obj),
                          second_die)

\* the non-double rule that keeps the larger die only
non_double_playable_larger(current_state_obj, player, playable, smaller_die, larger_die) ==
  IF InSeq(larger_die, playable) THEN <<larger_die>> ELSE <<>>

\* lines 300-340: the non-double rule; playable is individually_playable_dice
non_double_playable(current_state_obj, player, playable, smaller_die, larger_die) ==
  IF InSeq(larger_die, playable) /\ ~InSeq(smaller_die, playable) THEN <<larger_die>>
  ELSE IF ~InSeq(larger_die, playable) /\ InSeq(smaller_die, playable) THEN <<smaller_die>>
  ELSE IF InSeq(larger_die, playable) /\ InSeq(smaller_die, playable) THEN
    IF ~( can_play_in_order(current_state_obj, player, larger_die, smaller_die)
          \/ can_play_in_order(current_state_obj, player, smaller_die, larger_die) )
      THEN <<larger_die>>
      ELSE playable
  ELSE <<>>

\* strictly_playable_among in which the first die given counts as the smaller one
strictly_playable_among_as_given(current_state_obj, dice_list, player, playable) ==
  IF playable = <<>> THEN <<>>
  ELSE IF Len(dice_list) = 2 /\ dice_list[1] /= dice_list[2]
    THEN non_double_playable(current_state_obj, player, playable,
                             dice_list[1], dice_list[2])
  ELSE playable

\* lines 298-342, once the individually playable dice are known
strictly_playable_among(current_state_obj, dice_list, player, playable) ==
  IF playable = <<>> THEN <<>>
  ELSE IF Len(dice_list) = 2 /\ dice_list[1] /= dice_list[2]
    THEN non_double_playable(current_state_obj, player, playable,
                             Min2(dice_list[1], dice_list[2]),
                             Max2(dice_list[1], dice_list[2]))
  ELSE playable

_get_strictly_playable_dice(current_state_obj, dice_list, player) ==
  IF dice_list = <<>> THEN <<>>
  ELSE strictly_playable_among(current_state_obj, dice_list, player,
         individually_playable_dice(current_state_obj, dice_list, player))

\* after_strictly_playable_dice in which the simulation of lines 313-316 moves
\* the checker of the first larger-die move on the object itself
after_strictly_playable_dice_in_place(current_state_obj, dice_list, player) ==
  IF Len(dice_list) = 2 /\ dice_list[1] /= dice_list[2]
     /\ Len(individually_playable_dice(current_state_obj, dice_list, player)) = 2
    THEN make_move_base_logic(
           current_state_obj, player,
           _get_single_moves_for_die(player, Max2(dice_list[1], dice_list[2]),
                                     current_state_obj)[1][1],
           _get_single_moves_for_die(player, Max2(dice_list[1], dice_list[2]),
                                     current_state_obj)[1][2]).st
    ELSE current_state_obj

\* the object passed in, after the call: lines 314 and 326 make temp_game, a
\* copy, for every simulated move, and nothing else is assigned to
after_strictly_playable_dice(current_state_obj, dice_list, player) == current_state_obj

\* list(final_moves): a set, its order is not defined
get_legal_actions(gs) ==
  IF gs.dice = <<>> THEN {}
  ELSE UNION { SeqToSet(_get_single_moves_for_die(gs.current_player, die_val, gs)) :
               die_val \in SeqToSet(_get_strictly_playable_dice(gs, gs.dice,
                                                                gs.current_player)) }

-----------------------------------------------------------------------------
(* BackgammonGame.make_move: the live move.                                *)

\* die_to_remove in which an overshooting bear-off takes the largest die that works
die_to_remove_largest(gs, src, dst) ==
  LET player == gs.current_player
      nominal_die == _get_die_for_move(src, dst, player)
      needed_dist == IF player = "w" THEN 25 - src ELSE src
      possible_overshoot_dice ==
        { d \in SeqToSet(gs.dice) :
            d >= needed_dist /\ _check_all_pieces_home(player, gs)
            /\ _can_bear_off(player, src, d, gs) }
  IN  IF nominal_die /= NoDie /\ InSeq(nominal_die, gs.dice) THEN nominal_die
      ELSE IF dst = OFF /\ src /= BAR /\ possible_overshoot_dice /= {}
        THEN CHOOSE d \in possible_overshoot_dice :
               \A e \in possible_overshoot_dice : d >= e
      ELSE NoDie

\* lines 370-384: the die the move consumes, NoDie when there is none
die_to_remove(gs, src, dst) ==
  LET player == gs.current_player
      nominal_die == _get_die_for_move(src, dst, player)
      needed_dist == IF player = "w" THEN 25 - src ELSE src
      possible_overshoot_dice ==
        { d \in SeqToSet(gs.dice) :
            d >= needed_dist /\ _check_all_pieces_home(player, gs)
            /\ _can_bear_off(player, src, d, gs) }
  IN  IF nominal_die /= NoDie /\ InSeq(nominal_die, gs.dice) THEN nominal_die
      ELSE IF dst = OFF /\ src /= BAR /\ possible_overshoot_dice /= {}
        THEN CHOOSE d \in possible_overshoot_dice :
               \A e \in possible_overshoot_dice : d <= e
      ELSE NoDie

\* lines 396-401: take the checker from the source, unchecked
move_take_source(gs, src) ==
  LET player == gs.current_player
  IN  IF src = BAR THEN
        IF player = "w" THEN [gs EXCEPT !.white_bar = @ - 1]
        ELSE [gs EXCEPT !.black_bar = @ - 1]
      ELSE [gs EXCEPT !.board[src] = @ - Sign(player)]

\* line 417: the destination is held by two or more opposing checkers (ValueError)
move_raises(s, dst) ==
  dst /= OFF /\ s.board[dst] * Sign(s.current_player) < 0 /\ Abs(s.board[dst]) /= 1

\* move_put_destination in which a hit checker does not go to the bar
move_put_destination_no_bar(s, dst) ==
  IF dst = OFF THEN
    IF s.current_player = "w" THEN [s EXCEPT !.white_off = @ + 1]
    ELSE [s EXCEPT !.black_off = @ + 1]
  ELSE IF s.board[dst] * Sign(s.current_player) < 0
    THEN [s EXCEPT !.board[dst] = Sign(s.current_player)]
  ELSE [s EXCEPT !.board[dst] = @ + Sign(s.current_player)]

\* lines 403-419: put the checker on the destination (when nothing is raised)
move_put_destination(s, dst) ==
  LET player == s.current_player
      p_sign == Sign(player)
  IN  IF dst = OFF THEN
        IF player = "w" THEN [s EXCEPT !.white_off = @ + 1]
        ELSE [s EXCEPT !.black_off = @ + 1]
      ELSE IF s.board[dst] * p_sign < 0 THEN
        IF player = "w" THEN [s EXCEPT !.black_bar = @ + 1, !.board[dst] = p_sign]
        ELSE [s EXCEPT !.white_bar = @ + 1, !.board[dst] = p_sign]
      ELSE [s EXCEPT !.board[dst] = @ + p_sign]

\* line 422: self.available_moves = self.get_legal_actions()
with_legal_actions(s) == [s EXCEPT !.available_moves = get_legal_actions(s)]

\* lines 425-430: the count check on the object the move produced
move_counted(s, counts) ==
  IF counts[1] /= 15 \/ counts[2] /= 15
    THEN [ok |-> FALSE, st |-> [s EXCEPT !.winner = ERROR]]
    ELSE [ok |-> TRUE, st |-> s]

move_checked(s) == move_counted(s, get_total_checker_count(s))

\* move_finish in which the move cache is refreshed before the die is removed
move_finish_stale_moves(s, die) ==
  move_checked(after_is_game_over(
                 [with_legal_actions(s) EXCEPT !.dice = RemoveFirst(@, die)]))

\* lines 421-430: consume the die, refresh the cache, detect the end, count
move_finish(s, die) ==
  move_checked(after_is_game_over(
                 with_legal_actions([s EXCEPT !.dice = RemoveFirst(@, die)])))

\* lines 432-441: the except branch restores the snapshot taken at 390-393
move_rollback(gs) ==
  [ok |-> FALSE, st |-> [with_legal_actions(gs) EXCEPT !.winner = ERROR]]

\* lines 386-441, once the die to remove is known
move_with_die(gs, src, dst, die) ==
  IF die = NoDie THEN [ok |-> FALSE, st |-> gs]
  ELSE IF move_raises(move_take_source(gs, src), dst) THEN move_rollback(gs)
  ELSE move_finish(move_put_destination(move_take_source(gs, src), dst), die)

make_move(gs, src, dst) == move_with_die(gs, src, dst, die_to_remove(gs, src, dst))

-----------------------------------------------------------------------------
(* generate_possible_next_states_with_sequences.  acc is the pair of the   *)
(* closure's shared tables: memo, a set of keys, and                       *)
(* possible_final_outcomes, a dict kept here in insertion order as a       *)
(* sequence of [key, st, seq].                                             *)

\* lines 858-859 (and 869-870, 932-933): store unless the key holds a
\* sequence that is not longer
record_outcome(acc, state_now, sequence_so_far) ==
  LET key == board_tuple(state_now)
      entry == [key |-> key, st |-> state_now, seq |-> sequence_so_far]
      outs == acc.outcomes
      held == {i \in 1..Len(outs) : outs[i].key = key}
  IN  IF held = {} THEN [acc EXCEPT !.outcomes = Append(@, entry)]
      ELSE LET i == CHOOSE k \in held : TRUE
           IN  IF Len(sequence_so_far) < Len(outs[i].seq)
                 THEN [acc EXCEPT !.outcomes[i] = entry]
                 ELSE acc

\* lines 884-905: the die a candidate move consumes, NoDie to skip the move
consumed_die(state_now, dice_rem_tuple, player, die_val, move) ==
  LET src == move[1]
      dst == move[2]
      nominal_die == _get_die_for_move(src, dst, player)
      needed_dist == IF player = "w" THEN 25 - src ELSE src
      valid_overshoot_dice ==
        { d \in SeqToSet(dice_rem_tuple) :
            d >= needed_dist /\ _can_bear_off(player, src, d, state_now) }
  IN  IF nominal_die /= NoDie /\ nominal_die = die_val /\ InSeq(die_val, dice_rem_tuple)
        THEN die_val
      ELSE IF dst = OFF /\ src /= BAR THEN
        IF die_val >= needed_dist /\ _can_bear_off(player, src, die_val, state_now)
           /\ InSeq(die_val, dice_rem_tuple) /\ valid_overshoot_dice /= {}
           /\ \A d \in valid_overshoot_dice : die_val <= d
          THEN die_val
          ELSE NoDie
      ELSE NoDie

\* the pairs <<die_val, move>> of the two nested loops of lines 875-881, in order
candidate_moves(state_now, allowed_next_dice, player) ==
  Flatten([i \in 1..Len(allowed_next_dice) |->
             LET possible_single_moves ==
                   _get_single_moves_for_die(player, allowed_next_dice[i], state_now)
             IN  [j \in 1..Len(possible_single_moves) |->
                    <<allowed_next_dice[i], possible_single_moves[j]>>]])

RECURSIVE find_sequences_recursive(_, _, _, _, _)
RECURSIVE explore_moves(_, _, _, _, _, _, _, _)

\* explore_next in which the move is not added to the sequence
explore_next_keeping_sequence(acc, dice_rem_tuple, sequence_so_far, player, move, consumed, next_state) ==
  IF ~next_state.ok THEN acc
  ELSE find_sequences_recursive(acc, next_state.st,
                                SortAsc(RemoveFirst(dice_rem_tuple, consumed)),
                                sequence_so_far, player)

\* lines 912-928: recurse on the state the move produced, if it produced one
explore_next(acc, dice_rem_tuple, sequence_so_far, player, move, consumed, next_state) ==
  IF ~next_state.ok THEN acc
  ELSE find_sequences_recursive(acc, next_state.st,
                                SortAsc(RemoveFirst(dice_rem_tuple, consumed)),
                                Append(sequence_so_far, move), player)

\* lines 907-912: a move without a consumed die is skipped
explore_consumed(acc, state_now, dice_rem_tuple, sequence_so_far, player, move, consumed) ==
  IF consumed = NoDie THEN acc
  ELSE explore_next(acc, dice_rem_tuple, sequence_so_far, player, move, consumed,
                    make_move_base_logic(state_now, player, move[1], move[2]))

\* lines 881-928 for the candidates cands[lo] to cands[hi], in their order:
\* the first half, then the second half on the tables the first half left
explore_moves(acc, state_now, dice_rem_tuple, sequence_so_far, player, cands, lo, hi) ==
  IF lo > hi \/ acc.memo = {}   \* memo holds the key of this level: it is not empty
    THEN acc
  ELSE IF lo = hi THEN
    explore_consumed(acc, state_now, dice_rem_tuple, sequence_so_far, player,
                     cands[lo][2],
                     consumed_die(state_now, dice_rem_tuple, player,
                                  cands[lo][1], cands[lo][2]))
  ELSE explore_moves(
         explore_moves(acc, state_now, dice_rem_tuple, sequence_so_far, player, cands,
                       lo, (lo + hi) \div 2),
         state_now, dice_rem_tuple, sequence_so_far, player, cands,
         (lo + hi) \div 2 + 1, hi)

\* lines 875-933: the loops, or the record when they found no move
explore_candidates(seen, state_now, dice_rem_tuple, sequence_so_far, player, cands) ==
  IF cands = <<>>   \* found_at_least_one_move_this_level stays False
    THEN record_outcome(seen, state_now, sequence_so_far)
    ELSE explore_moves(seen, state_now, dice_rem_tuple, sequence_so_far, player, cands,
                       1, Len(cands))

\* lines 862-933, once the allowed dice are known
explore_allowed(seen, state_now, dice_rem_tuple, sequence_so_far, player, allowed_next_dice) ==
  IF allowed_next_dice = <<>> THEN record_outcome(seen, state_now, sequence_so_far)
  ELSE explore_candidates(seen, state_now, dice_rem_tuple, sequence_so_far, player,
                          candidate_moves(state_now, allowed_next_dice, player))

\* lines 850-854: the memo admits a key once
remember(acc, state_key_memo) ==
  [acc EXCEPT !.memo = {key : key \in @ \cup {state_key_memo}}]

\* lines 839-933
find_sequences_recursive(acc, state_now, dice_rem_tuple, sequence_so_far, player) ==
  IF <<board_tuple(state_now), dice_rem_tuple>> \in acc.memo THEN acc
  ELSE IF dice_rem_tuple = <<>>
    THEN record_outcome(remember(acc, <<board_tuple(state_now), dice_rem_tuple>>),
                        state_now, sequence_so_far)
  ELSE explore_allowed(remember(acc, <<board_tuple(state_now), dice_rem_tuple>>),
                       state_now, dice_rem_tuple, sequence_so_far, player,
                       _get_strictly_playable_dice(state_now, dice_rem_tuple, player))

\* lines 939-943
initial_dice_perms(dice_tuple) ==
  IF Len(dice_tuple) = 4 THEN <<dice_tuple>>
  ELSE IF Len(dice_tuple) = 2 THEN
    IF dice_tuple[1] /= dice_tuple[2]
      THEN << <<dice_tuple[1], dice_tuple[2]>>, <<dice_tuple[2], dice_tuple[1]>> >>
      ELSE << <<dice_tuple[1], dice_tuple[1]>> >>
  ELSE <<dice_tuple>>

\* lines 945-948: one search per seeded order, on the shared tables
RECURSIVE search_all_perms(_, _, _, _)
search_all_perms(acc, current_game_state, perms, player) ==
  IF perms = <<>> THEN acc
  ELSE search_all_perms(
         find_sequences_recursive(acc, [current_game_state EXCEPT !.dice = Head(perms)],
                                  SortAsc(Head(perms)), <<>>, player),
         current_game_state, Tail(perms), player)

\* lines 950-970: the maximum-dice-played filter
filter_max_dice(current_game_state, outcomes) ==
  LET pairs == [i \in 1..Len(outcomes) |-> [st |-> outcomes[i].st, seq |-> outcomes[i].seq]]
      lens == {Len(pairs[i].seq) : i \in 1..Len(pairs)}
      max_len == CHOOSE n \in lens : \A m \in lens : m <= n
  IN  IF pairs = <<>> THEN << [st |-> current_game_state, seq |-> <<>>] >>
      ELSE IF max_len = 0 THEN << pairs[1] >>
      ELSE SelectSeq(pairs, LAMBDA o : Len(o.seq) = max_len)

\* the list of (final_state, sequence) pairs, as records [st, seq]
generate_possible_next_states_with_sequences(current_game_state, dice_tuple, player) ==
  IF dice_tuple = <<>> THEN << [st |-> current_game_state, seq |-> <<>>] >>
  ELSE filter_max_dice(current_game_state,
         search_all_perms([memo |-> {}, outcomes |-> <<>>], current_game_state,
                          initial_dice_perms(dice_tuple), player).outcomes)

-----------------------------------------------------------------------------
(* Game phase and the heuristic.  The weights are floats with one decimal; *)
(* they are kept here in tenths, and a score in hundredths (the product of *)
(* two weights is the finest grain the sum has), so the arithmetic is      *)
(* exact integer arithmetic.                                               *)

OPENING_EXIT_TOTAL_PIP_THRESHOLD == 280

\* determine_game_phase that keeps to the stored phase once the opening is left
determine_game_phase_sticky(gs) ==
  IF gs.current_phase = "MIDGAME" THEN "MIDGAME"
  ELSE IF gs.white_off > 0 \/ gs.black_off > 0
          \/ (_check_all_pieces_home("w", gs) /\ _check_all_pieces_home("b", gs))
    THEN "ENDGAME"
  ELSE IF calculate_pip("w", gs) + calculate_pip("b", gs) > OPENING_EXIT_TOTAL_PIP_THRESHOLD
    THEN "OPENING"
  ELSE "MIDGAME"

\* determine_game_phase in which a pip sum on the threshold is still the opening
determine_game_phase_from_threshold(gs) ==
  IF gs.white_off > 0 \/ gs.black_off > 0
     \/ (_check_all_pieces_home("w", gs) /\ _check_all_pieces_home("b", gs))
    THEN "ENDGAME"
  ELSE IF calculate_pip("w", gs) + calculate_pip("b", gs) >= OPENING_EXIT_TOTAL_PIP_THRESHOLD
    THEN "OPENING"
  ELSE "MIDGAME"

\* the value determine_game_phase returns (it also stores it in current_phase)
determine_game_phase(gs) ==
  LET w_home == _check_all_pieces_home("w", gs)
      b_home == _check_all_pieces_home("b", gs)
      total_pip == calculate_pip("w", gs) + calculate_pip("b", gs)
  IN  IF gs.white_off > 0 \/ gs.black_off > 0 \/ (w_home /\ b_home) THEN "ENDGAME"
      ELSE IF total_pip > OPENING_EXIT_TOTAL_PIP_THRESHOLD THEN "OPENING"
      ELSE "MIDGAME"

\* the object after determine_game_phase() ran on it
after_determine_game_phase(gs) == [gs EXCEPT !.current_phase = determine_game_phase(gs)]

OPENING_WEIGHTS ==
  [PIP_SCORE_FACTOR |-> 8, OFF_SCORE_FACTOR |-> 50, HIT_BONUS |-> 350,
   BAR_PENALTY |-> -250, POINT_BONUS |-> 30, HOME_BOARD_POINT_BONUS |-> 20,
   INNER_HOME_POINT_BONUS |-> 10, ANCHOR_BONUS |-> 80, PRIME_BASE_BONUS |-> 50,
   DIRECT_SHOT_PENALTY_FACTOR |-> -10,
   BLOT_PENALTY_REDUCTION_IF_OPP_ON_BAR |-> 6, AGGRESSION_THRESHOLD |-> 120,
   MIDGAME_HOME_PRISON_BONUS |-> 150,
   FAR_BEHIND_BACK_CHECKER_PENALTY_FACTOR |-> 5, TRAPPED_CHECKER_BONUS |-> 60]

MIDGAME_WEIGHTS ==
  [PIP_SCORE_FACTOR |-> 12, OFF_SCORE_FACTOR |-> 150, HIT_BONUS |-> 400,
   BAR_PENALTY |-> -250, POINT_BONUS |-> 30, HOME_BOARD_POINT_BONUS |-> 50,
   INNER_HOME_POINT_BONUS |-> 30, ANCHOR_BONUS |-> 30, PRIME_BASE_BONUS |-> 50,
   DIRECT_SHOT_PENALTY_FACTOR |-> -15,
   BLOT_PENALTY_REDUCTION_IF_OPP_ON_BAR |-> 5, AGGRESSION_THRESHOLD |-> 150,
   MIDGAME_HOME_PRISON_BONUS |-> 200,
   FAR_BEHIND_BACK_CHECKER_PENALTY_FACTOR |-> 7, TRAPPED_CHECKER_BONUS |-> 80]

ENDGAME_WEIGHTS ==
  [PIP_SCORE_FACTOR |-> 30, OFF_SCORE_FACTOR |-> 300, HIT_BONUS |-> 500,
   BAR_PENALTY |-> -500, POINT_BONUS |-> 5, HOME_BOARD_POINT_BONUS |-> 5,
   INNER_HOME_POINT_BONUS |-> 2, ANCHOR_BONUS |-> 10, PRIME_BASE_BONUS |-> 10,
   DIRECT_SHOT_PENALTY_FACTOR |-> -25,
   BLOT_PENALTY_REDUCTION_IF_OPP_ON_BAR |-> 2, AGGRESSION_THRESHOLD |-> 50,
   MIDGAME_HOME_PRISON_BONUS |-> 0,
   FAR_BEHIND_BACK_CHECKER_PENALTY_FACTOR |-> 0, TRAPPED_CHECKER_BONUS |-> 20]

\* PHASE_WEIGHTS.get(phase, MIDGAME_WEIGHTS)
PHASE_WEIGHTS(phase) ==
  IF phase = "OPENING" THEN OPENING_WEIGHTS
  ELSE IF phase = "ENDGAME" THEN ENDGAME_WEIGHTS
  ELSE MIDGAME_WEIGHTS

\* lines 747-757: made_points_mask, as the set of points (1..24) the player has made
made_points(gs, player) == {pos \in 1..24 : gs.board[pos] * Sign(player) >= 2}

\* lines 749-756: the made-point bonuses, in tenths
made_point_bonuses(gs, player, weights) ==
  LET made == made_points(gs, player)
      home == IF player = "w" THEN 19..24 ELSE 1..6
      inner_home == IF player = "w" THEN 22..24 ELSE 1..3
      anchor == IF player = "w" THEN 1..6 ELSE 19..24
  IN  Cardinality(made) * weights.POINT_BONUS
      + Cardinality(made \cap home) * weights.HOME_BOARD_POINT_BONUS
      + Cardinality(made \cap inner_home) * weights.INNER_HOME_POINT_BONUS
      + Cardinality(made \cap anchor) * weights.ANCHOR_BONUS

\* lines 763-772: the direct shots at the blot on point pos
direct_shots(gs, player, pos) ==
  LET o_sign == -Sign(player)
      o_bar == p_bar_of(Opponent(player), gs)
      shooters == {pos - d * o_sign : d \in 1..6} \cap 1..24
      entry_die_needed == IF player = "b" THEN pos ELSE 25 - pos
  IN  SumSeq([q \in 1..24 |->
                IF q \in shooters /\ gs.board[q] * o_sign > 0
                  THEN Abs(gs.board[q]) ELSE 0])
      + (IF o_bar > 0 /\ 1 <= entry_die_needed /\ entry_die_needed <= 6
            /\ gs.board[pos] * Sign(player) < 2
           THEN o_bar ELSE 0)

\* lines 758-774: blot_penalty_total, in hundredths
blot_penalty_total(gs, player, weights) ==
  LET o_bar == p_bar_of(Opponent(player), gs)
      shots == SumSeq([pos \in 1..24 |->
                         IF gs.board[pos] * Sign(player) = 1
                           THEN direct_shots(gs, player, pos) ELSE 0])
  IN  shots * weights.DIRECT_SHOT_PENALTY_FACTOR
      * (IF o_bar > 0 THEN weights.BLOT_PENALTY_REDUCTION_IF_OPP_ON_BAR ELSE 10)

\* made_points_mask[pos - 1] == 1, and false off the board
made_point(gs, player, pos) == pos \in 1..24 /\ gs.board[pos] * Sign(player) >= 2

\* lines 775-788: prime_segments, the maximal runs of 4 or more made points
prime_segments(gs, player) ==
  LET starts == {a \in 1..24 : made_point(gs, player, a) /\ ~made_point(gs, player, a - 1)}
      ends == {b \in 1..24 : made_point(gs, player, b) /\ ~made_point(gs, player, b + 1)}
  IN  { seg \in starts \X ends :
          /\ seg[2] - seg[1] + 1 >= 4
          /\ \A q \in seg[1]..seg[2] : made_point(gs, player, q) }

\* the sum of f over the segments it is defined on, each found by the point it starts on
SumOverSegments(f) ==
  SumSeq([a \in 1..24 |->
            IF \E seg \in DOMAIN f : seg[1] = a
              THEN f[CHOOSE seg \in DOMAIN f : seg[1] = a] ELSE 0])

\* lines 779-787: prime_bonus_total, in tenths
prime_bonus_total(gs, player, weights) ==
  LET bonus(seg) == (seg[2] - seg[1] + 1 - 3) * weights.PRIME_BASE_BONUS
  IN  SumOverSegments([seg \in prime_segments(gs, player) |-> bonus(seg)])

\* lines 789-796: trapped_checker_bonus_total, in tenths
trapped_checker_bonus_total(gs, player, weights) ==
  LET o_sign == -Sign(player)
      trapped(seg) ==
        LET zone == IF player = "w" THEN 1..(seg[1] - 1) ELSE (seg[2] + 1)..24
        IN  SumSeq([q \in 1..24 |->
                      IF q \in zone /\ gs.board[q] * o_sign > 0
                        THEN Abs(gs.board[q]) ELSE 0])
      bonus(seg) == IF seg[2] - seg[1] + 1 >= 5
                      THEN trapped(seg) * weights.TRAPPED_CHECKER_BONUS ELSE 0
  IN  IF weights.TRAPPED_CHECKER_BONUS /= 0
        THEN SumOverSegments([seg \in prime_segments(gs, player) |-> bonus(seg)]) ELSE 0

\* lines 797-802: midgame_prison_bonus, in tenths
midgame_prison_bonus(gs, player, weights) ==
  LET o_bar == p_bar_of(Opponent(player), gs)
      home_range == IF player = "w" THEN 19..24 ELSE 1..6
      home_points_made_count == Cardinality(made_points(gs, player) \cap home_range)
  IN  IF weights.MIDGAME_HOME_PRISON_BONUS /= 0 /\ home_points_made_count >= 3 /\ o_bar > 0
        THEN weights.MIDGAME_HOME_PRISON_BONUS * o_bar ELSE 0

\* lines 803-812: back_checker_penalty, in tenths
back_checker_penalty(gs, player, weights) ==
  LET p_pip == calculate_pip(player, gs)
      o_pip == calculate_pip(Opponent(player), gs)
      is_far_behind == p_pip > 0 /\ o_pip > 0 /\ 2 * p_pip >= 3 * o_pip
      back_zone == IF player = "w" THEN 1..6 ELSE 19..24
      dist(pos) == IF player = "w" THEN 25 - pos ELSE pos
      back_checker_pip_sum ==
        SumSeq([pos \in 1..24 |->
                  IF pos \in back_zone /\ gs.board[pos] * Sign(player) > 0
                    THEN dist(pos) * Abs(gs.board[pos]) ELSE 0])
  IN  IF weights.FAR_BEHIND_BACK_CHECKER_PENALTY_FACTOR /= 0 /\ is_far_behind
        THEN back_checker_pip_sum * weights.FAR_BEHIND_BACK_CHECKER_PENALTY_FACTOR * (-1)
        ELSE 0

\* total_score, in hundredths
evaluate_position_heuristic(game_state, player_to_evaluate, weights) ==
  LET opp == Opponent(player_to_evaluate)
      pip_score == (calculate_pip(opp, game_state)
                    - calculate_pip(player_to_evaluate, game_state))
                   * weights.PIP_SCORE_FACTOR
      off_score == (p_off_of(player_to_evaluate, game_state) - p_off_of(opp, game_state))
                   * weights.OFF_SCORE_FACTOR
      bar_penalty == p_bar_of(player_to_evaluate, game_state) * weights.BAR_PENALTY
      hit_bonus == p_bar_of(opp, game_state) * weights.HIT_BONUS
  IN  10 * ( pip_score + off_score + bar_penalty + hit_bonus
             + made_point_bonuses(game_state, player_to_evaluate, weights)
             + prime_bonus_total(game_state, player_to_evaluate, weights)
             + midgame_prison_bonus(game_state, player_to_evaluate, weights)
             + trapped_checker_bonus_total(game_state, player_to_evaluate, weights)
             + back_checker_penalty(game_state, player_to_evaluate, weights) )
      + blot_penalty_total(game_state, player_to_evaluate, weights)

-----------------------------------------------------------------------------
(* Scores.  A score is a Python float: +inf, -inf, nan, or a finite value. *)
(* A finite value is kept as an integer number of units; one unit is       *)
(* 1 / (100 * ScoreUnit), so that the average over the SampleCount rolls   *)
(* of a chance node is exact down to the depth the search is started at.   *)

MAX_DEPTH == 3

\* the number of rolls a chance node samples (NUM_DICE_SAMPLES in the program)
SampleCount == 2

RECURSIVE Power(_, _)
Power(b, e) == IF e = 0 THEN 1 ELSE b * Power(b, e - 1)

ScoreUnit == Power(SampleCount, MAX_DEPTH - 1)

POS_INF == [t |-> "inf", v |-> 0]
NEG_INF == [t |-> "-inf", v |-> 0]
NAN == [t |-> "nan", v |-> 0]
Finite(n) == [t |-> "fin", v |-> n]

\* a > b on floats (False when either is nan)
f_gt(a, b) ==
  IF a.t = "nan" \/ b.t = "nan" THEN FALSE
  ELSE IF a.t = "inf" THEN b.t /= "inf"
  ELSE IF a.t = "-inf" THEN FALSE
  ELSE IF b.t = "inf" THEN FALSE
  ELSE IF b.t = "-inf" THEN TRUE
  ELSE a.v > b.v

\* a <= b on floats (False when either is nan)
f_le(a, b) == a.t /= "nan" /\ b.t /= "nan" /\ ~f_gt(a, b)

\* max(a, b) and min(a, b) of Python: b replaces a only when it compares beyond it
f_max(a, b) == IF f_gt(b, a) THEN b ELSE a
f_min(a, b) == IF f_gt(a, b) THEN b ELSE a

f_add(a, b) ==
  IF a.t = "nan" \/ b.t = "nan" THEN NAN
  ELSE IF a.t = "fin" /\ b.t = "fin" THEN Finite(a.v + b.v)
  ELSE IF a.t = "fin" THEN b
  ELSE IF b.t = "fin" THEN a
  ELSE IF a.t = b.t THEN a
  ELSE NAN

f_div(a, n) == IF a.t = "fin" THEN Finite(a.v \div n) ELSE a

-----------------------------------------------------------------------------
(* get_minimax_score_sampled.  rolls[d] is the list _get_random_dice_sample *)
(* returns at a chance node of depth d.  The result is                     *)
(* [score, touched]: touched says that the call ran determine_game_phase   *)
(* on game_state itself, which stores current_phase in it.                 *)

\* lines 996 and 1017
dice_for_turn(roll) ==
  IF roll[1] = roll[2] THEN <<roll[1], roll[2], roll[1], roll[2]>> ELSE roll

\* lines 1000 and 1021
no_move_outcome(possible_outcomes) ==
  possible_outcomes = <<>>
  \/ (Len(possible_outcomes) = 1 /\ possible_outcomes[1].seq = <<>>)

RECURSIVE get_minimax_score_sampled(_, _, _, _, _, _, _)
RECURSIVE eval_branches(_, _, _, _, _, _, _, _, _)
RECURSIVE eval_samples(_, _, _, _, _, _, _, _)

\* lines 1008-1010 and 1029-1031: the bound of the node's kind follows
\* best, and the loop breaks when beta <= alpha
branch_bounds(alpha, beta, best) == [best |-> best, alpha |-> alpha, beta |-> beta,
                                     cut |-> f_le(beta, alpha)]

branch_best(b, best, is_max) ==
  branch_bounds(IF is_max THEN f_max(b.alpha, best) ELSE b.alpha,
                IF is_max THEN b.beta ELSE f_min(b.beta, best), best)

\* lines 1008 and 1029: max(best, evaluation) or min(worst, evaluation)
branch_step(b, evaluation, is_max) ==
  branch_best(b, IF is_max THEN f_max(b.best, evaluation)
                 ELSE f_min(b.best, evaluation), is_max)

\* lines 1005-1010 and 1026-1031: the branches outcomes[lo] to outcomes[hi] of
\* one sampled roll, in their order (the first half, then the second half
\* from what the first half left); b is [best, alpha, beta, cut]
eval_branches(outcomes, current_turn_player, depth, maximizing_player, b, rolls, is_max, lo, hi) ==
  IF lo > hi \/ b.cut THEN b
  ELSE IF lo = hi THEN
    branch_step(b,
                get_minimax_score_sampled(outcomes[lo].st,
                                          Opponent(current_turn_player), depth - 1,
                                          maximizing_player, b.alpha, b.beta,
                                          rolls).score,
                is_max)
  ELSE eval_branches(
         outcomes, current_turn_player, depth, maximizing_player,
         eval_branches(outcomes, current_turn_player, depth, maximizing_player, b,
                       rolls, is_max, lo, (lo + hi) \div 2),
         rolls, is_max, (lo + hi) \div 2 + 1, hi)

\* sample_skipped in which the value moves alpha as a branch of a maximizing node does
sample_skipped_as_branch(a, skipped) ==
  [acc |-> f_add(a.acc, skipped.score), alpha |-> f_max(a.alpha, skipped.score),
   beta |-> a.beta, touched |-> a.touched \/ skipped.touched, n |-> a.n + 1]

\* lines 1001-1003 and 1022-1024, then 1011 and 1032: the roll has no move
sample_skipped(a, skipped) ==
  [acc |-> f_add(a.acc, skipped.score), alpha |-> a.alpha, beta |-> a.beta,
   touched |-> a.touched \/ skipped.touched, n |-> a.n + 1]

\* lines 1005-1011 and 1026-1032: the roll has moves; alpha and beta stay as
\* the branches left them
sample_searched(a, searched) ==
  [acc |-> f_add(a.acc, searched.best), alpha |-> searched.alpha,
   beta |-> searched.beta, touched |-> a.touched, n |-> a.n + 1]

\* lines 999-1011 and 1020-1032: one sampled roll
sample_step(game_state, current_turn_player, depth, maximizing_player, a, rolls, is_max, possible_outcomes) ==
  IF no_move_outcome(possible_outcomes)
    THEN sample_skipped(a,
           get_minimax_score_sampled(game_state, Opponent(current_turn_player),
                                     depth - 1, maximizing_player, a.alpha, a.beta,
                                     rolls))
    ELSE sample_searched(a,
           eval_branches(possible_outcomes, current_turn_player, depth,
                         maximizing_player,
                         [best |-> IF is_max THEN NEG_INF ELSE POS_INF,
                          alpha |-> a.alpha, beta |-> a.beta, cut |-> FALSE],
                         rolls, is_max, 1, Len(possible_outcomes)))

\* lines 995-1011 and 1016-1032: the sampled rolls from the one at the head of
\* sampled on; a is [acc, alpha, beta, touched, n]
eval_samples(game_state, current_turn_player, depth, maximizing_player, a, rolls, is_max, sampled) ==
  IF sampled = <<>> THEN a
  ELSE eval_samples(
         game_state, current_turn_player, depth, maximizing_player,
         sample_step(game_state, current_turn_player, depth, maximizing_player, a,
                     rolls, is_max,
                     generate_possible_next_states_with_sequences(
                       game_state, dice_for_turn(Head(sampled)), current_turn_player)),
         rolls, is_max, Tail(sampled))

\* lines 978-980 with the loser's score left out
terminal_score_any_winner(winner, maximizing_player) ==
  IF winner /= None THEN POS_INF ELSE Finite(0)

\* lines 978-980
terminal_score(winner, maximizing_player) ==
  IF winner = maximizing_player THEN POS_INF
  ELSE IF winner /= None THEN NEG_INF
  ELSE Finite(0)

\* lines 1012-1013 and 1033-1034
average_score(a) ==
  [score |-> IF a.n > 0 THEN f_div(a.acc, a.n) ELSE Finite(0), touched |-> a.touched]

\* lines 973-1034
get_minimax_score_sampled(game_state, current_turn_player, depth, maximizing_player, alpha, beta, rolls) ==
  IF is_game_over(game_state) THEN
    [score |-> terminal_score(after_is_game_over(game_state).winner, maximizing_player),
     touched |-> FALSE]
  ELSE IF depth = 0 THEN
    [score |-> Finite(ScoreUnit
                      * evaluate_position_heuristic(
                          game_state, maximizing_player,
                          PHASE_WEIGHTS(determine_game_phase(game_state)))),
     touched |-> TRUE]
  ELSE
    average_score(
      eval_samples(game_state, current_turn_player, depth, maximizing_player,
                   [acc |-> Finite(0), alpha |-> alpha, beta |-> beta,
                    touched |-> FALSE, n |-> 0],
                   rolls, current_turn_player = maximizing_player, rolls[depth]))

\* after_minimax in which is_game_over leaves winner as it was
after_minimax_winner_unset(game_state, r) ==
  IF is_game_over(game_state) THEN game_state
  ELSE IF r.touched THEN after_determine_game_phase(game_state)
  ELSE game_state

\* the object game_state after get_minimax_score_sampled(game_state, ...) returned r
after_minimax(game_state, r) ==
  IF is_game_over(game_state) THEN after_is_game_over(game_state)
  ELSE IF r.touched THEN after_determine_game_phase(game_state)
  ELSE game_state

-----------------------------------------------------------------------------
(* select_ai_move_minimax: the result is [seq, st], the pair it returns.   *)

\* the pair (sequence, next_state) once next_state went through the search
evaluated(outcome, r) == [seq |-> outcome.seq, st |-> after_minimax(outcome.st, r)]

\* pick_step in which a score equal to the best one replaces it
pick_step_ties_to_last(best, outcome, r, i) ==
  [score |-> IF f_le(best.score, r.score) THEN r.score ELSE best.score,
   optimal |-> IF f_le(best.score, r.score) THEN evaluated(outcome, r) ELSE best.optimal,
   found |-> best.found \/ f_le(best.score, r.score),
   first |-> IF i = 1 THEN evaluated(outcome, r) ELSE best.first]

\* lines 1056-1059 for outcome i with score r.score; best is
\* [score, optimal, found, first], first being possible_outcomes[0] as the
\* loop left it
pick_step(best, outcome, r, i) ==
  [score |-> IF f_gt(r.score, best.score) THEN r.score ELSE best.score,
   optimal |-> IF f_gt(r.score, best.score) THEN evaluated(outcome, r) ELSE best.optimal,
   found |-> best.found \/ f_gt(r.score, best.score),
   first |-> IF i = 1 THEN evaluated(outcome, r) ELSE best.first]

\* lines 1051-1059: the loop over possible_outcomes[lo] to [hi], in their
\* order (the first half, then the second half from what the first half left)
RECURSIVE pick_best(_, _, _, _, _, _)
pick_best(possible_outcomes, ai_player, rolls, best, lo, hi) ==
  IF lo > hi \/ best.score = NAN   \* best_score is never nan: nan > x is False
    THEN best
  ELSE IF lo = hi THEN
    pick_step(best, possible_outcomes[lo],
              get_minimax_score_sampled(possible_outcomes[lo].st, Opponent(ai_player),
                                        MAX_DEPTH - 1, ai_player, NEG_INF, POS_INF,
                                        rolls),
              lo)
  ELSE pick_best(possible_outcomes, ai_player, rolls,
                 pick_best(possible_outcomes, ai_player, rolls, best,
                           lo, (lo + hi) \div 2),
                 (lo + hi) \div 2 + 1, hi)

\* ai_result in which only the dice are cleared
ai_result_keeping_moves(optimal) ==
  [seq |-> optimal.seq, st |-> [optimal.st EXCEPT !.dice = <<>>]]

\* lines 1061-1074: the fallback on the first outcome, then the cleared pools
ai_result(optimal) ==
  [seq |-> optimal.seq, st |-> [optimal.st EXCEPT !.dice = <<>>, !.available_moves = {}]]

ai_choice(best) == ai_result(IF best.found THEN best.optimal ELSE best.first)

\* ai_select_among in which the no-move return goes through the clearing of lines 1069-1072 too
ai_select_among_clearing(current_game_state, ai_player, rolls, possible_outcomes) ==
  IF no_move_outcome(possible_outcomes)
    THEN ai_result([seq |-> <<>>, st |-> current_game_state])
    ELSE ai_choice(pick_best(possible_outcomes, ai_player, rolls,
                             [score |-> NEG_INF,
                              optimal |-> [seq |-> <<>>, st |-> current_game_state],
                              found |-> FALSE,
                              first |-> [seq |-> <<>>, st |-> current_game_state]],
                             1, Len(possible_outcomes)))

\* lines 1040-1074, once the outcomes are generated
ai_select_among(current_game_state, ai_player, rolls, possible_outcomes) ==
  IF no_move_outcome(possible_outcomes)
    THEN [seq |-> <<>>, st |-> current_game_state]
    ELSE ai_choice(pick_best(possible_outcomes, ai_player, rolls,
                             [score |-> NEG_INF,
                              optimal |-> [seq |-> <<>>, st |-> current_game_state],
                              found |-> FALSE,
                              first |-> [seq |-> <<>>, st |-> current_game_state]],
                             1, Len(possible_outcomes)))

select_ai_move_minimax(current_game_state, dice_tuple, ai_player, rolls) ==
  ai_select_among(current_game_state, ai_player, rolls,
                  generate_possible_next_states_with_sequences(current_game_state,
                                                               dice_tuple, ai_player))

-----------------------------------------------------------------------------
(* Positions.  Apart from the constructor's, AllOnLastPoint,               *)
(* BarAgainstPoint and LastOneOnBar, they are                              *)
(* positions that games of the program reach (random legal play through    *)
(* roll_dice, make_move and switch_player from the constructor's position),*)
(* taken at a turn boundary: the dice pool and the move cache are empty    *)
(* and nobody has won.                                                     *)

\* BackgammonGame.__init__ and copy: the object with the given position
Position(board, white_bar, black_bar, white_off, black_off, current_player) ==
  LET gs == [board |-> board, white_bar |-> white_bar, black_bar |-> black_bar,
             white_off |-> white_off, black_off |-> black_off, winner |-> None,
             current_player |-> current_player, dice |-> <<>>,
             available_moves |-> {}, current_phase |-> "OPENING"]
  IN  [gs EXCEPT !.current_phase = determine_game_phase(gs)]

\* the state after construction (main_play_vs_ai sets current_player to 'w')
NewGame == Position(InitialBoard, 0, 0, 0, 0, "w")

\* black has two checkers on the bar against a nearly closed board
ContactBlackOnBar ==
  Position(<< -4, 0, 0, 0, 0, 0, 0, 0, 0, 0, 0, 0,
              0, 0, 0, 0, 0, 0, -2, 1, 0, -2, 14, -5 >>, 0, 2, 0, 0, "b")

\* white is on the bar, blots on both sides
ContactWhiteOnBar ==
  Position(<< 3, -4, 3, -8, -1, 0, -2, 0, 0, 0, 0, 1,
              1, 0, 0, 0, 2, 0, 0, 0, 0, 0, 1, 3 >>, 1, 0, 0, 0, "w")

\* black bears its last checker off through white's scattered checkers
BlackLastChecker ==
  Position(<< 1, -1, 0, 0, 0, 1, 0, 1, 0, 0, 1, 0,
              0, 0, 0, 2, 0, 0, 1, 1, 0, 1, 0, 6 >>, 0, 0, 0, 14, "b")

\* white has one checker left, on its 12 point; black has one on the bar
WhiteLastChecker ==
  Position(<< 0, -1, 0, 0, 0, 0, -1, 0, 0, -3, 0, 1,
              -2, 0, 0, -2, 0, 0, -3, 0, -1, -1, 0, 0 >>, 0, 1, 14, 0, "b")

\* the ends of races: a few checkers left on the points nearest off
RaceOneOne(current_player) ==
  Position([pos \in 1..24 |-> IF pos = 1 THEN -1 ELSE IF pos = 24 THEN 1 ELSE 0],
           0, 0, 14, 14, current_player)

RaceTwoOne(current_player) ==
  Position([pos \in 1..24 |-> IF pos = 1 THEN -1 ELSE IF pos = 24 THEN 2 ELSE 0],
           0, 0, 13, 14, current_player)

RaceOneTwo(current_player) ==
  Position([pos \in 1..24 |-> IF pos \in {1, 2} THEN -1 ELSE IF pos = 24 THEN 1 ELSE 0],
           0, 0, 14, 13, current_player)

RaceGap(current_player) ==
  Position([pos \in 1..24 |-> IF pos = 1 THEN -2 ELSE IF pos = 23 THEN 1 ELSE 0],
           0, 0, 14, 13, current_player)

\* both sides bear off; white has checkers behind its 23 and 24 points
BearOffPiled ==
  Position(<< -6, -2, 0, 0, 0, 0, 0, 0, 0, 0, 0, 0,
              0, 0, 0, 0, 0, 0, 0, 0, 0, 2, 1, 4 >>, 0, 0, 8, 7, "b")

\* both sides bear off; black has checkers on its three nearest points
BearOffSpread ==
  Position(<< -4, -3, -1, 0, 0, 0, 0, 0, 0, 0, 0, 0,
              0, 0, 0, 0, 0, 0, 0, 0, 0, 0, 1, 5 >>, 0, 0, 9, 7, "w")

\* black may bear off or bring its last outside checker round; white has one
\* checker left
BearOffChoice ==
  Position([pos \in 1..24 |-> IF pos \in {1, 2, 7} THEN -1
                                ELSE IF pos = 24 THEN 1 ELSE 0],
           0, 0, 14, 12, "b")

\* a race past the last contact: black's last checker was hit and is on its way home
RaceApart(current_player) ==
  Position([pos \in 1..24 |-> IF pos \in {15, 20} THEN 1
                                ELSE IF pos = 12 THEN -1 ELSE 0],
           0, 0, 13, 14, current_player)

\* white's last checker was hit and is on the bar in front of black's made
\* 1 point: a roll of (1,1) gives white no move, a roll of (6,5) brings it in
\* (a position of the rules of the game, not one taken from a played game)
BarAgainstPoint(current_player) ==
  Position([pos \in 1..24 |-> IF pos = 1 THEN -2 ELSE 0], 1, 0, 14, 13, current_player)

\* white bears off with two checkers still on its 19 point, black has a
\* checker on white's 20 point and holds white's 24 point: of a roll of (5,1)
\* the 5 can only be played after 19/20 (a position random play reached)
FiveBehindOne ==
  Position(<< -6, -4, 0, 0, 0, 0, 0, 0, 0, -1, 0, 0,
              0, -1, 0, 0, 0, 0, 2, -1, 0, 5, 6, -2 >>, 0, 0, 2, 0, "w")

\* both sides have brought every checker home and nobody has borne off, but
\* one white checker is on the bar (a position of the rules of the game, not
\* one taken from a played game)
LastOneOnBar ==
  Position(<< 0, 0, -3, -3, -4, -5, 0, 0, 0, 0, 0, 0,
              0, 0, 0, 0, 0, 0, 3, 3, 3, 3, 2, 0 >>, 1, 0, 0, 0, "w")

\* the pip counts sum to 285: a move brings the sum to 280 or across it
PipBoundary ==
  Position(<< -1, -1, 0, 0, 0, -2, 0, 0, 0, 0, 1, 3,
              -6, -1, 0, 0, -1, -1, 5, 2, -2, 0, 4, 0 >>, 0, 0, 0, 0, "w")

\* white has brought every checker home and nobody has borne off yet
WhiteHomeFirst ==
  Position(<< -8, -3, 0, 0, -1, 0, 0, 0, 0, 0, 0, 0,
              0, 0, 0, 0, 0, 0, 0, 2, -3, 5, 0, 8 >>, 0, 0, 0, 0, "w")

\* both sides have brought every checker home and nobody has borne off yet
BothHomeNoneOff ==
  Position(<< -5, -4, -5, 0, -1, 0, 0, 0, 0, 0, 0, 0,
              0, 0, 0, 0, 0, 0, 0, 0, 6, 0, 5, 4 >>, 0, 0, 0, 0, "w")

\* every checker on the point nearest off, for both colours
AllOnLastPoint ==
  Position([pos \in 1..24 |-> IF pos = 1 THEN -15 ELSE IF pos = 24 THEN 15 ELSE 0],
           0, 0, 0, 0, "w")

-----------------------------------------------------------------------------
(* The game loop, main_play_vs_ai.                                         *)

\* the turns a run of the loop is followed for
MaxTurns == 1

\* the AI's search is followed from positions with at most this many checkers in play
MaxSearchCheckers == 6

\* the rolls the chance nodes of the search are given
SampledRolls == { <<6, 5>>, <<1, 1>> }

\* the lists _get_random_dice_sample may return, one per depth of the search
RECURSIVE SeqsOfLen(_, _)
SeqsOfLen(S, n) ==
  IF n = 0 THEN {<<>>} ELSE {Append(q, x) : q \in SeqsOfLen(S, n - 1), x \in S}

RollsByDepth == SeqsOfLen(SeqsOfLen(SampledRolls, SampleCount), MAX_DEPTH - 1)

checkers_in_play(gs) ==
  SumSeq([pos \in 1..24 |-> Abs(gs.board[pos])]) + gs.white_bar + gs.black_bar

\* the games the loop is followed from: [st, human]
LiveSeeds ==
  { [st |-> NewGame, human |-> "w"], [st |-> NewGame, human |-> "b"],
    [st |-> ContactWhiteOnBar, human |-> "w"],
    [st |-> ContactBlackOnBar, human |-> "b"],
    [st |-> BlackLastChecker, human |-> "b"],
    [st |-> RaceOneOne("w"), human |-> "b"], [st |-> RaceOneOne("b"), human |-> "b"],
    [st |-> RaceTwoOne("w"), human |-> "b"], [st |-> RaceOneTwo("b"), human |-> "w"],
    [st |-> RaceGap("b"), human |-> "b"], [st |-> RaceGap("w"), human |-> "b"] }

Done(name, pre, args, ret) == [name |-> name, pre |-> pre, args |-> args, ret |-> ret]

Init ==
  \E seed \in LiveSeeds :
    /\ game = seed.st
    /\ human_player = seed.human
    /\ turn_count = 0
    /\ pc = "roll"
    /\ op = Done("init", seed.st, <<>>, <<>>)

\* BackgammonGame.roll_dice, lines 520-527
rolled(gs, d1, d2) ==
  with_legal_actions([gs EXCEPT !.dice = IF d1 = d2 THEN <<d1, d1, d1, d1>>
                                         ELSE <<d1, d2>>])

\* switched in which the turn state is reset and the player stays
switched_keeping_player(gs) == [gs EXCEPT !.dice = <<>>, !.available_moves = {}]

\* BackgammonGame.switch_player, lines 529-533
switched(gs) ==
  [gs EXCEPT !.current_player = Opponent(@), !.dice = <<>>, !.available_moves = {}]

\* lines 1126-1132: the loop goes on with the rolled game g1
roll_done(g1, d1, d2) ==
  /\ game' = g1
  /\ pc' = IF g1.available_moves = {} THEN "end_turn" ELSE "move"
  /\ op' = Done("roll_dice", game, <<d1, d2>>, g1.dice)

\* lines 1100-1132: the top of the loop, the roll, and the skip of a turn without moves
roll_dice ==
  /\ pc = "roll"
  /\ game.winner = None
  /\ turn_count < MaxTurns
  /\ \E d1 \in 1..6, d2 \in 1..6 :
       roll_done(rolled(after_determine_game_phase(game), d1, d2), d1, d2)
  /\ turn_count' = turn_count + 1
  /\ UNCHANGED human_player

\* what parse_move lets through, lines 158-186
ParsedMoves ==
  { m \in ({BAR} \cup (1..24)) \X ((1..24) \cup {OFF}) :
      ~(m[1] = BAR /\ m[2] = OFF) /\ m[1] /= m[2] }

\* lines 1181-1194: the loop goes on with the game g1 that make_move left
move_done(m, ok, g1) ==
  /\ game' = g1
  /\ pc' = IF (ok /\ g1.winner /= None) \/ g1.dice = <<>> \/ g1.available_moves = {}
             THEN "end_turn" ELSE "move"
  /\ op' = Done("make_move", game, m, ok)

\* lines 1181-1183: determine_game_phase runs after a move that succeeded
move_returned(m, r) ==
  move_done(m, r.ok, IF r.ok THEN after_determine_game_phase(r.st) ELSE r.st)

\* lines 1139, 1164-1194: the human enters a move of available_moves
human_move ==
  /\ pc = "move"
  /\ game.current_player = human_player
  /\ game.dice /= <<>> /\ game.available_moves /= {}
  /\ \E m \in ParsedMoves \cap game.available_moves :
       move_returned(m, make_move(game, m[1], m[2]))
  /\ UNCHANGED <<human_player, turn_count>>

\* lines 1198-1200: the human enters a move that is not available
human_rejected ==
  /\ pc = "move"
  /\ game.current_player = human_player
  /\ game.dice /= <<>> /\ game.available_moves /= {}
  /\ ParsedMoves \ game.available_moves /= {}
  /\ op' = Done("rejected", game, <<>>, FALSE)
  /\ UNCHANGED <<game, human_player, turn_count, pc>>

\* lines 1154-1157: the human passes
human_pass ==
  /\ pc = "move"
  /\ game.current_player = human_player
  /\ game.dice /= <<>> /\ game.available_moves /= {}
  /\ pc' = "end_turn"
  /\ op' = Done("pass", game, <<>>, <<>>)
  /\ UNCHANGED <<game, human_player, turn_count>>

\* lines 1209-1221: the loop goes on with the state the AI returned
ai_done(rolls, r) ==
  /\ game' = after_determine_game_phase(r.st)
  /\ op' = Done("select_ai_move_minimax", game, rolls, r.seq)

\* lines 1206-1221: the AI's turn
ai_turn ==
  /\ pc = "move"
  /\ game.current_player /= human_player
  /\ checkers_in_play(game) <= MaxSearchCheckers
  /\ \E rolls \in RollsByDepth :
       ai_done(rolls, select_ai_move_minimax(game, game.dice, Opponent(human_player),
                                             rolls))
  /\ pc' = "end_turn"
  /\ UNCHANGED <<human_player, turn_count>>

\* lines 1259-1260: the loop ends with a winner (or the ERROR state)
game_ends ==
  /\ pc = "end_turn"
  /\ game.winner /= None
  /\ pc' = "over"
  /\ op' = Done("over", game, <<>>, game.winner)
  /\ UNCHANGED <<game, human_player, turn_count>>

\* line 1263: the turn passes to the other player
switch_player ==
  /\ pc = "end_turn"
  /\ game.winner = None
  /\ game' = switched(game)
  /\ pc' = "roll"
  /\ op' = Done("switch_player", game, <<>>, <<>>)
  /\ UNCHANGED <<human_player, turn_count>>

Next ==
  \/ roll_dice
  \/ human_move
  \/ human_rejected
  \/ human_pass
  \/ ai_turn
  \/ game_ends
  \/ switch_player

Spec == Init /\ [][Next]_vars

-----------------------------------------------------------------------------
(* The rule functions applied to positions: the single-move generator, the *)
(* move appliers and the playable-dice filter, each called as the program  *)
(* calls it and its result kept in op.  A call that only reads the        *)
(* position ends the run (pc = "return"): the next call starts from a      *)
(* position again.                                                         *)

\* the moves applied to a position before the functions are called on it
MaxMoves == 1

\* the positions the functions are applied from
RuleSeeds ==
  { NewGame, ContactBlackOnBar, ContactWhiteOnBar, WhiteLastChecker,
    BearOffPiled, BearOffSpread, AllOnLastPoint, LastOneOnBar,
    RaceOneOne("w"), RaceTwoOne("w"), RaceOneTwo("b"), RaceGap("w") }

InitRules ==
  \E seed \in RuleSeeds :
    /\ game = seed
    /\ human_player = "w"
    /\ turn_count = 0
    /\ pc = "roll"
    /\ op = Done("init", seed, <<>>, <<>>)

\* current_state._get_single_moves_for_die(player, die_value, current_state)
single_moves_for_die ==
  /\ pc = "roll"
  /\ \E player \in {"w", "b"}, die_value \in 1..6 :
       op' = Done("_get_single_moves_for_die", game,
                  [player |-> player, die_value |-> die_value],
                  _get_single_moves_for_die(player, die_value, game))
  /\ pc' = "return"
  /\ UNCHANGED <<game, human_player, turn_count>>

\* the game goes on with the object make_move_base_logic worked on
base_move_done(player, move, r) ==
  /\ game' = r.st
  /\ op' = Done("make_move_base_logic", game, [player |-> player, move |-> move], r.ok)

\* make_move_base_logic on a move of the single-move generator, as lines
\* 876-912 and 313-316 apply it; no caller moves in a game that is over
apply_base_move ==
  /\ pc = "roll"
  /\ turn_count < MaxMoves
  /\ ~is_game_over(game)
  /\ \E player \in {"w", "b"}, die_value \in 1..6 :
       \E move \in SeqToSet(_get_single_moves_for_die(player, die_value, game)) :
         base_move_done(player, move, make_move_base_logic(game, player, move[1], move[2]))
  /\ turn_count' = turn_count + 1
  /\ UNCHANGED <<human_player, pc>>

\* _get_strictly_playable_dice on a roll of two dice, in either order
strictly_playable_dice ==
  /\ pc = "roll"
  /\ \E player \in {"w", "b"}, d1 \in 1..6, d2 \in 1..6 :
       /\ op' = Done("_get_strictly_playable_dice", game,
                     [player |-> player, dice_list |-> <<d1, d2>>],
                     _get_strictly_playable_dice(game, <<d1, d2>>, player))
       /\ game' = after_strictly_playable_dice(game, <<d1, d2>>, player)
  /\ pc' = "return"
  /\ UNCHANGED <<human_player, turn_count>>

\* roll_dice for the player to move
rule_roll_dice ==
  /\ pc = "roll"
  /\ turn_count < MaxMoves
  /\ ~is_game_over(game)
  /\ \E d1 \in 1..6, d2 \in 1..6 :
       /\ game' = rolled(game, d1, d2)
       /\ op' = Done("roll_dice", game, <<d1, d2>>, <<>>)
  /\ pc' = "move"
  /\ UNCHANGED <<human_player, turn_count>>

\* the game goes on with the object make_move worked on
make_move_done(m, r) ==
  /\ game' = r.st
  /\ op' = Done("make_move", game, m, r.ok)

\* make_move on a move of available_moves
apply_make_move ==
  /\ pc = "move"
  /\ turn_count < MaxMoves
  /\ game.winner = None
  /\ \E m \in game.available_moves : make_move_done(m, make_move(game, m[1], m[2]))
  /\ turn_count' = turn_count + 1
  /\ UNCHANGED <<human_player, pc>>

NextRules ==
  \/ single_moves_for_die
  \/ apply_base_move
  \/ strictly_playable_dice
  \/ rule_roll_dice
  \/ apply_make_move

SpecRules == InitRules /\ [][NextRules]_vars

-----------------------------------------------------------------------------
(* The turn-sequence enumerator applied to positions.                      *)

\* the dice_tuple of a roll, as lines 996 and 1213 build it
dice_of_roll(d1, d2) == IF d1 = d2 THEN <<d1, d1, d1, d1>> ELSE <<d1, d2>>

\* the positions the enumerator is applied from
EnumSeeds == RuleSeeds

InitEnum ==
  \E seed \in EnumSeeds :
    /\ game = seed
    /\ human_player = "w"
    /\ turn_count = 0
    /\ pc = "roll"
    /\ op = Done("init", seed, <<>>, <<>>)

\* generate_possible_next_states_with_sequences(game, dice_tuple, player)
generate_sequences ==
  /\ pc = "roll"
  /\ ~is_game_over(game)
  /\ \E player \in {"w", "b"}, d1 \in 1..6, d2 \in 1..6 :
       op' = Done("generate_possible_next_states_with_sequences", game,
                  [player |-> player, dice_tuple |-> dice_of_roll(d1, d2)],
                  generate_possible_next_states_with_sequences(
                    game, dice_of_roll(d1, d2), player))
  /\ pc' = "return"
  /\ UNCHANGED <<game, human_player, turn_count>>

NextEnum ==
  \/ apply_base_move
  \/ generate_sequences

SpecEnum == InitEnum /\ [][NextEnum]_vars

-----------------------------------------------------------------------------
(* get_minimax_score_sampled applied to positions, some of them over.      *)

\* the sample lists the search is applied with: the same rolls at every depth
QueryRolls == { rolls \in RollsByDepth : \A d \in 1..Len(rolls) : rolls[d] = rolls[1] }

\* the positions the search is applied from
SearchSeeds ==
  { AllOnLastPoint, RaceOneOne("w"), RaceOneOne("b"), RaceTwoOne("w"),
    RaceOneTwo("b"), RaceGap("w"), RaceGap("b"), BarAgainstPoint("w") }

InitSearch ==
  \E seed \in SearchSeeds :
    /\ game = seed
    /\ human_player = "w"
    /\ turn_count = 0
    /\ pc = "roll"
    /\ op = Done("init", seed, <<>>, <<>>)

\* the call leaves game as is_game_over and determine_game_phase stored into it
minimax_done(args, r) ==
  /\ game' = after_minimax(game, r)
  /\ op' = Done("get_minimax_score_sampled", game, args, r.score)

\* get_minimax_score_sampled(game, current_turn_player, depth, maximizing_player,
\* -inf, +inf) at the depths select_ai_move_minimax and the recursion reach;
\* a call that searches is followed from at most MaxSearchCheckers checkers
minimax_score ==
  /\ pc = "roll"
  /\ \E current_turn_player \in {"w", "b"}, maximizing_player \in {"w", "b"},
        depth \in 0..(MAX_DEPTH - 1), rolls \in QueryRolls :
       /\ is_game_over(game) \/ depth = 0 \/ checkers_in_play(game) <= MaxSearchCheckers
       /\ minimax_done([current_turn_player |-> current_turn_player, depth |-> depth,
                        maximizing_player |-> maximizing_player, rolls |-> rolls],
                       get_minimax_score_sampled(game, current_turn_player, depth,
                                                 maximizing_player, NEG_INF, POS_INF,
                                                 rolls))
  /\ pc' = "return"
  /\ UNCHANGED <<human_player, turn_count>>

NextSearch ==
  \/ apply_base_move
  \/ minimax_score

SpecSearch == InitSearch /\ [][NextSearch]_vars

-----------------------------------------------------------------------------
(* select_ai_move_minimax applied to positions, as lines 1209-1214 call   *)
(* it: for the player to move, with the dice roll_dice left in the game.   *)

\* the positions the AI is asked for a move from
AISeeds ==
  { BearOffChoice, ContactBlackOnBar, RaceApart("w"), RaceOneOne("b"), RaceTwoOne("w"),
    RaceOneTwo("b"), RaceGap("w") }

InitAI ==
  \E seed \in AISeeds :
    /\ game = seed
    /\ human_player = Opponent(seed.current_player)
    /\ turn_count = 0
    /\ pc = "roll"
    /\ op = Done("init", seed, <<>>, <<>>)

\* select_ai_move_minimax(game, tuple(game.dice), ai_player); a call that
\* searches is followed from at most MaxSearchCheckers checkers
select_ai_move ==
  /\ pc = "move"
  /\ checkers_in_play(game) <= MaxSearchCheckers \/ game.available_moves = {}
  /\ \E rolls \in QueryRolls :
       op' = Done("select_ai_move_minimax", game,
                  [dice_tuple |-> game.dice, ai_player |-> game.current_player,
                   rolls |-> rolls],
                  select_ai_move_minimax(game, game.dice, game.current_player, rolls))
  /\ pc' = "return"
  /\ UNCHANGED <<game, human_player, turn_count>>

NextAI ==
  \/ rule_roll_dice
  \/ select_ai_move

SpecAI == InitAI /\ [][NextAI]_vars

-----------------------------------------------------------------------------
(* The queries calculate_pip, determine_game_phase and                     *)
(* evaluate_position_heuristic, called any number of times and in any      *)
(* order on the object of a game, between its rolls and moves.             *)

\* the positions the queries are called from
QuerySeeds == { NewGame, PipBoundary, WhiteHomeFirst, BothHomeNoneOff, RaceOneOne("w") }

InitQuery ==
  \E seed \in QuerySeeds :
    /\ game = seed
    /\ human_player = "w"
    /\ turn_count = 0
    /\ pc = "roll"
    /\ op = Done("init", seed, <<>>, <<>>)

\* game.calculate_pip(player)
query_pip ==
  /\ \E player \in {"w", "b"} :
       op' = Done("calculate_pip", game, [player |-> player], calculate_pip(player, game))
  /\ UNCHANGED <<game, human_player, turn_count, pc>>

\* game.determine_game_phase(); the game goes on with the object it worked on
query_phase ==
  /\ game' = after_determine_game_phase(game)
  /\ op' = Done("determine_game_phase", game, <<>>, determine_game_phase(game))
  /\ UNCHANGED <<human_player, turn_count, pc>>

\* game.evaluate_position_heuristic(game, player_to_evaluate, weights)
query_heuristic ==
  /\ \E player \in {"w", "b"}, phase \in {"OPENING", "MIDGAME", "ENDGAME"} :
       op' = Done("evaluate_position_heuristic", game,
                  [player_to_evaluate |-> player, weights |-> phase],
                  evaluate_position_heuristic(game, player, PHASE_WEIGHTS(phase)))
  /\ UNCHANGED <<game, human_player, turn_count, pc>>

NextQuery ==
  \/ rule_roll_dice
  \/ apply_make_move
  \/ query_pip
  \/ query_phase
  \/ query_heuristic

SpecQuery == InitQuery /\ [][NextQuery]_vars

-----------------------------------------------------------------------------
(* The first turn of a game: the constructor's position, white's roll, and *)
(* the moves white enters until the roll is played out.  op holds the turn: *)
(* the object the dice were rolled on, the roll, and                       *)
(* played_sequence_this_turn.                                              *)

InitOpening ==
  /\ game = NewGame
  /\ human_player = "w"
  /\ turn_count = 0
  /\ pc = "roll"
  /\ op = Done("init", NewGame, <<>>, <<>>)

\* lines 1106-1113: the first turn begins with a roll
opening_roll ==
  /\ pc = "roll"
  /\ \E d1 \in 1..6, d2 \in 1..6 :
       /\ game' = rolled(after_determine_game_phase(game), d1, d2)
       /\ op' = Done("turn", game, [roll |-> <<d1, d2>>, played_sequence_this_turn |-> <<>>],
                     <<>>)
  /\ pc' = "move"
  /\ turn_count' = turn_count + 1
  /\ UNCHANGED human_player

\* lines 1166-1170 and 1192-1200: the move is appended when make_move succeeded
opening_played(m, r) ==
  /\ game' = IF r.ok THEN after_determine_game_phase(r.st) ELSE r.st
  /\ op' = IF r.ok THEN [op EXCEPT !.args.played_sequence_this_turn = Append(@, m)] ELSE op
  /\ pc' = IF (r.ok /\ r.st.winner /= None) \/ r.st.dice = <<>> \/ r.st.available_moves = {}
             THEN "end_turn" ELSE "move"

\* lines 1139, 1164-1194: white enters a move of available_moves
opening_move ==
  /\ pc = "move"
  /\ game.dice /= <<>> /\ game.available_moves /= {}
  /\ \E m \in ParsedMoves \cap game.available_moves :
       opening_played(m, make_move(game, m[1], m[2]))
  /\ UNCHANGED <<human_player, turn_count>>

NextOpening ==
  \/ opening_roll
  \/ opening_move

SpecOpening == InitOpening /\ [][NextOpening]_vars

\* the same turn begun on positions of later in a game; the player to move
\* enters the moves
TurnSeeds ==
  { ContactWhiteOnBar, ContactBlackOnBar, BearOffSpread, WhiteLastChecker, FiveBehindOne,
    RaceOneOne("b"), RaceTwoOne("w"), RaceGap("w"), BarAgainstPoint("w") }

InitTurn ==
  \E seed \in TurnSeeds :
    /\ game = seed
    /\ human_player = seed.current_player
    /\ turn_count = 0
    /\ pc = "roll"
    /\ op = Done("init", seed, <<>>, <<>>)

SpecTurn == InitTurn /\ [][NextOpening]_vars

-----------------------------------------------------------------------------
(* make_move_base_logic called with any player and any two endpoints: the  *)
(* method checks its arguments itself (lines 453-491), whoever calls it.   *)

\* the positions make_move_base_logic is called on
BaseSeeds ==
  { NewGame, ContactWhiteOnBar, ContactBlackOnBar, BearOffSpread, WhiteLastChecker,
    FiveBehindOne, BarAgainstPoint("w"), BarAgainstPoint("b") }

InitBase ==
  \E seed \in BaseSeeds :
    /\ game = seed
    /\ human_player = "w"
    /\ turn_count = 0
    /\ pc = "roll"
    /\ op = Done("init", seed, <<>>, <<>>)

\* the endpoints a caller can pass: 'bar', 'off' or a point
Endpoints == {BAR, OFF} \cup (1..24)

\* game.make_move_base_logic(player, src, dst)
call_base_move ==
  /\ pc = "roll"
  /\ \E player \in {"w", "b"}, src \in Endpoints, dst \in Endpoints :
       base_move_done(player, <<src, dst>>, make_move_base_logic(game, player, src, dst))
  /\ pc' = "return"
  /\ UNCHANGED <<human_player, turn_count>>

NextBase == call_base_move

SpecBase == InitBase /\ [][NextBase]_vars

-----------------------------------------------------------------------------
(* make_move applied to whatever parse_move lets through.  The method does *)
(* not look the move up in available_moves (main_play_vs_ai does, at line  *)
(* 1165, before it calls it); what it does with any move is followed here. *)

\* the positions make_move is called from, once the dice are rolled
MoveSeeds ==
  { NewGame, ContactBlackOnBar, ContactWhiteOnBar, WhiteLastChecker, BearOffSpread,
    RaceOneOne("b") }

InitMove ==
  \E seed \in MoveSeeds :
    /\ game = seed
    /\ human_player = "w"
    /\ turn_count = 0
    /\ pc = "roll"
    /\ op = Done("init", seed, <<>>, <<>>)

\* the calls are followed up to the first one that returns False
call_done(m, r) ==
  /\ make_move_done(m, r)
  /\ pc' = IF r.ok THEN "move" ELSE "return"

\* game.make_move(src, dst) on a parsed move, in a game nobody has won
call_make_move ==
  /\ pc = "move"
  /\ turn_count < MaxMoves
  /\ game.winner = None
  /\ \E m \in ParsedMoves : call_done(m, make_move(game, m[1], m[2]))
  /\ turn_count' = turn_count + 1
  /\ UNCHANGED human_player

\* the dice a search of the enumerator has left: the roll, or what is left of
\* it after some moves, sorted as line 923 sorts it
RemainingDice ==
  { <<d1, d2>> : d1 \in 1..6, d2 \in 1..6 } \cup { <<d>> : d \in 1..6 }
  \cup { <<d, d, d>> : d \in 1..6 } \cup { <<d, d, d, d>> : d \in 1..6 }

\* lines 875-909: one pass of the enumerator's loops on state_now = game with
\* dice_rem_tuple left: a die of the allowed ones, a move it gives, and the
\* die the move is found to consume (NoDie: the move is skipped)
consume_die ==
  /\ pc = "roll"
  /\ \E player \in {"w", "b"}, dice_rem_tuple \in RemainingDice :
       /\ dice_rem_tuple = SortAsc(dice_rem_tuple)
       /\ \E cand \in SeqToSet(candidate_moves(
                          game,
                          _get_strictly_playable_dice(game, dice_rem_tuple, player),
                          player)) :
            op' = Done("consumed_die", game,
                       [player |-> player, dice_rem_tuple |-> dice_rem_tuple,
                        die_val |-> cand[1], move |-> cand[2]],
                       consumed_die(game, dice_rem_tuple, player, cand[1], cand[2]))
  /\ pc' = "return"
  /\ UNCHANGED <<game, human_player, turn_count>>

NextMove ==
  \/ rule_roll_dice
  \/ call_make_move
  \/ consume_die

SpecMove == InitMove /\ [][NextMove]_vars

-----------------------------------------------------------------------------
(* The methods that write dice and available_moves, called in any order on *)
(* the object of a game: roll_dice, make_move on any parsed move,          *)
(* switch_player, and the adoption of the state select_ai_move_minimax     *)
(* returns (game = best_resulting_state, line 1217).                       *)

\* the positions the calls start from
CacheSeeds == { ContactWhiteOnBar, BearOffSpread, RaceGap("w") }

InitCache ==
  \E seed \in CacheSeeds :
    /\ game = seed
    /\ human_player = "w"
    /\ turn_count = 0
    /\ pc = "roll"
    /\ op = Done("init", seed, <<>>, <<>>)

\* the endpoints of the calls of make_move with a move that is not available:
\* the bar, off, and the points at either end of the board, where the
\* positions above have checkers, made points and empty points
StrayEndpoints == {BAR, 1, 2, 23, 24, OFF}

\* game.make_move(src, dst) on a move of available_moves or on a parsed move
\* between the endpoints above; the calls are followed up to the first one
\* that returns False
cache_make_move ==
  /\ pc = "move"
  /\ turn_count < MaxMoves
  /\ game.winner = None
  /\ \E m \in ParsedMoves :
       /\ m \in game.available_moves \/ (m[1] \in StrayEndpoints /\ m[2] \in StrayEndpoints)
       /\ call_done(m, make_move(game, m[1], m[2]))
  /\ turn_count' = turn_count + 1
  /\ UNCHANGED human_player

\* game.switch_player(), after a roll or a move
call_switch_player ==
  /\ pc = "move"
  /\ game' = switched(game)
  /\ op' = Done("switch_player", game, <<>>, <<>>)
  /\ pc' = "roll"
  /\ UNCHANGED <<human_player, turn_count>>

\* line 1217: game = best_resulting_state
adopted(rolls, r) ==
  /\ game' = r.st
  /\ op' = Done("select_ai_move_minimax", game,
                [dice_tuple |-> game.dice, ai_player |-> game.current_player,
                 rolls |-> rolls], r)

\* lines 1209-1217: game = the state select_ai_move_minimax returns for the
\* roll in game.dice, called on the freshly rolled dice as the loop calls it;
\* a call that searches is followed from at most MaxSearchCheckers checkers
adopt_ai_state ==
  /\ pc = "move"
  /\ op.name = "roll_dice"
  /\ turn_count < MaxMoves
  /\ checkers_in_play(game) <= MaxSearchCheckers \/ game.available_moves = {}
  /\ \E rolls \in QueryRolls :
       adopted(rolls, select_ai_move_minimax(game, game.dice, game.current_player, rolls))
  /\ pc' = "move"
  /\ turn_count' = turn_count + 1
  /\ UNCHANGED human_player

NextCache ==
  \/ rule_roll_dice
  \/ cache_make_move
  \/ call_switch_player
  \/ adopt_ai_state

SpecCache == InitCache /\ [][NextCache]_vars

-----------------------------------------------------------------------------
(* The objects the search hands back.  game is the object the caller gave; *)
(* a returned state is either that object or a copy of BackgammonGame.copy, *)
(* which shares nothing with it (lines 102-114 build new lists).  A later   *)
(* mutation of a returned object is followed to see which objects change.   *)

\* the positions the search is called from
ShareSeeds ==
  { NewGame, ContactWhiteOnBar, ContactBlackOnBar, BearOffSpread, WhiteLastChecker,
    RaceOneOne("b"), RaceTwoOne("w"), RaceGap("w"), BarAgainstPoint("w") }

InitShare ==
  \E seed \in ShareSeeds :
    /\ game = seed
    /\ human_player = Opponent(seed.current_player)
    /\ turn_count = 0
    /\ pc = "roll"
    /\ op = Done("init", seed, <<>>, <<>>)

\* the states a call returned, each with the mark of the object it is:
\* every state of the enumerator is a copy (lines 859, 870, 933, 937, 950);
\* select_ai_move_minimax returns one of those (lines 1058, 1063), except at
\* line 1044, which returns current_game_state itself
returned_objects(call) ==
  IF call.name = "generate_possible_next_states_with_sequences"
    THEN [i \in 1..Len(call.ret) |-> [st |-> call.ret[i].st, is_input |-> FALSE]]
    ELSE << [st |-> call.ret.st,
             is_input |-> no_move_outcome(
                            generate_possible_next_states_with_sequences(
                              call.pre, call.args.dice_tuple, call.args.ai_player))] >>

\* the caller mutates the object obj (as lines 1217 and 1263 do with the state
\* the AI returned: game = ai_final_state, then game.switch_player()); the
\* object it gave to the call changes with it when it is the same object
mutation_done(call, obj) ==
  /\ game' = IF obj.is_input THEN switched(game) ELSE game
  /\ op' = Done("later_mutation", call.pre, [call |-> call, is_input |-> obj.is_input],
                switched(obj.st))

later_mutation ==
  /\ pc = "return"
  /\ op.name \in {"generate_possible_next_states_with_sequences", "select_ai_move_minimax"}
  /\ \E i \in 1..Len(returned_objects(op)) : mutation_done(op, returned_objects(op)[i])
  /\ pc' = "mutated"
  /\ UNCHANGED <<human_player, turn_count>>

NextShare ==
  \/ rule_roll_dice
  \/ strictly_playable_dice
  \/ generate_sequences
  \/ minimax_score
  \/ select_ai_move
  \/ later_mutation

SpecShare == InitShare /\ [][NextShare]_vars

-----------------------------------------------------------------------------
(* The properties.  They are stated on the position itself, with the       *)
(* notions below, and not with the operators above.                        *)

\* the checkers of player, or of its opponent, on point pos
OwnAt(gs, player, pos) ==
  IF gs.board[pos] * Sign(player) > 0 THEN Abs(gs.board[pos]) ELSE 0

OpposingAt(gs, player, pos) == OwnAt(gs, Opponent(player), pos)

OnBoard(gs, player) == SumSeq([pos \in 1..24 |-> OwnAt(gs, player, pos)])

BarOf(gs, player) == IF player = "w" THEN gs.white_bar ELSE gs.black_bar
OffOf(gs, player) == IF player = "w" THEN gs.white_off ELSE gs.black_off

\* each colour has its 15 checkers, on the board, on the bar or off
Conserved(gs) ==
  \A player \in {"w", "b"} : OnBoard(gs, player) + BarOf(gs, player) + OffOf(gs, player) = 15

HomeQuadrant(player) == IF player = "w" THEN 19..24 ELSE 1..6

DistanceToOff(player, pos) == IF player = "w" THEN 25 - pos ELSE pos

AllHome(gs, player) ==
  \A pos \in (1..24) \ HomeQuadrant(player) : OwnAt(gs, player, pos) = 0

\* the point a die takes a checker to: from the bar, then from a point
EntryPoint(player, v) == IF player = "w" THEN v ELSE 25 - v
Ahead(player, pos, v) == IF player = "w" THEN pos + v ELSE pos - v

\* C1: in every state of the game loop (roll_dice, make_move on a move of
\* available_moves, switch_player, and the state select_ai_move_minimax
\* returned taken as the game), white has 15 checkers on the board, on the bar
\* and off together, and so has black.
C1_CheckerConservation == Conserved(game)

\* the loop took over a state the AI returned, in which it bore a checker off
C1_Witness ==
  /\ op.name = "select_ai_move_minimax"
  /\ op.ret /= <<>>
  /\ OffOf(game, op.pre.current_player) > OffOf(op.pre, op.pre.current_player)

CalledSingleMoves == op.name = "_get_single_moves_for_die"

\* C3: with a checker of the player on the bar, _get_single_moves_for_die
\* returns for die v the one move (bar, e), e = v for white and 25 - v for
\* black, when point e holds at most one opposing checker, and nothing when it
\* holds two or more; no move it returns then starts from a point.
C3_BarEntry ==
  (CalledSingleMoves /\ BarOf(op.pre, op.args.player) > 0) =>
    LET e == EntryPoint(op.args.player, op.args.die_value)
    IN  /\ OpposingAt(op.pre, op.args.player, e) <= 1 => op.ret = << <<BAR, e>> >>
        /\ OpposingAt(op.pre, op.args.player, e) >= 2 => op.ret = <<>>
        /\ \A i \in 1..Len(op.ret) : op.ret[i][1] = BAR

\* the entry point is held by two or more opposing checkers: nothing is returned
C3_Witness ==
  /\ CalledSingleMoves
  /\ BarOf(op.pre, op.args.player) > 0
  /\ OpposingAt(op.pre, op.args.player,
                EntryPoint(op.args.player, op.args.die_value)) >= 2
  /\ op.ret = <<>>

\* C4: with the player's bar empty, _get_single_moves_for_die returns (p, off)
\* for die v exactly when the player has a checker on p, all its checkers are
\* in its home quadrant, and v is the distance from p to off, or v is greater
\* and the player has no checker on a home point farther from off than p; so
\* with the 15 checkers on the point nearest off every die bears off from it.
C4_BearOff ==
  (CalledSingleMoves /\ BarOf(op.pre, op.args.player) = 0) =>
    /\ \A p \in 1..24 :
         InSeq(<<p, OFF>>, op.ret) <=>
           /\ OwnAt(op.pre, op.args.player, p) > 0
           /\ AllHome(op.pre, op.args.player)
           /\ \/ op.args.die_value = DistanceToOff(op.args.player, p)
              \/ /\ op.args.die_value > DistanceToOff(op.args.player, p)
                 /\ \A q \in HomeQuadrant(op.args.player) :
                      DistanceToOff(op.args.player, q) > DistanceToOff(op.args.player, p)
                        => OwnAt(op.pre, op.args.player, q) = 0
    /\ \A p \in 1..24 :
         (DistanceToOff(op.args.player, p) = 1 /\ OwnAt(op.pre, op.args.player, p) = 15)
           => op.ret = << <<p, OFF>> >>

\* a die greater than the distance bears a checker off, and the same die does
\* not bear off a checker nearer to off that has a checker behind it
C4_Witness ==
  /\ CalledSingleMoves
  /\ BarOf(op.pre, op.args.player) = 0
  /\ \E p \in 1..24, q \in 1..24 :
       /\ InSeq(<<p, OFF>>, op.ret)
       /\ op.args.die_value > DistanceToOff(op.args.player, p)
       /\ OwnAt(op.pre, op.args.player, q) > 0
       /\ DistanceToOff(op.args.player, q) < DistanceToOff(op.args.player, p)
       /\ ~InSeq(<<q, OFF>>, op.ret)

\* C5: with the player's bar empty, _get_single_moves_for_die returns a move
\* (p, q) between two points for die v exactly when the player has a checker
\* on p, q is v points ahead of p, q is a point of the board, and q holds at
\* most one opposing checker; a move it returns never has its source as its
\* destination and is never (bar, off).
C5_PointToPoint ==
  (CalledSingleMoves /\ BarOf(op.pre, op.args.player) = 0) =>
    /\ \A p \in 1..24, q \in 1..24 :
         InSeq(<<p, q>>, op.ret) <=>
           /\ OwnAt(op.pre, op.args.player, p) > 0
           /\ q = Ahead(op.args.player, p, op.args.die_value)
           /\ OpposingAt(op.pre, op.args.player, q) <= 1
    /\ \A i \in 1..Len(op.ret) :
         op.ret[i][1] /= op.ret[i][2] /\ op.ret[i] /= <<BAR, OFF>>

\* a move onto a blot is returned while another checker's point ahead is blocked
C5_Witness ==
  /\ CalledSingleMoves
  /\ BarOf(op.pre, op.args.player) = 0
  /\ \E i \in 1..Len(op.ret) :
       op.ret[i][2] /= OFF /\ OpposingAt(op.pre, op.args.player, op.ret[i][2]) = 1
  /\ \E p \in 1..24 :
       /\ OwnAt(op.pre, op.args.player, p) > 0
       /\ Ahead(op.args.player, p, op.args.die_value) \in 1..24
       /\ OpposingAt(op.pre, op.args.player,
                     Ahead(op.args.player, p, op.args.die_value)) >= 2

CalledBaseMove == op.name = "make_move_base_logic"

\* C6: on a position with 15 checkers of each colour, make_move_base_logic
\* accepts every move _get_single_moves_for_die returns for a die 1..6, and the
\* position it leaves again has 15 checkers of each colour, no negative bar or
\* off count, and the mover did not land on two or more opposing checkers.
C6_GeneratedMovesSound ==
  (CalledBaseMove /\ Conserved(op.pre)) =>
    /\ op.ret = TRUE
    /\ Conserved(game)
    /\ \A player \in {"w", "b"} : BarOf(game, player) >= 0 /\ OffOf(game, player) >= 0
    /\ op.args.move[2] /= OFF => OpposingAt(op.pre, op.args.player, op.args.move[2]) < 2

\* a generated entry from the bar onto a blot was applied
C6_Witness ==
  /\ CalledBaseMove
  /\ Conserved(op.pre)
  /\ op.ret = TRUE
  /\ op.args.move[1] = BAR
  /\ OpposingAt(op.pre, op.args.player, op.args.move[2]) = 1

\* the mover, the destination and the result of the move a move applier made
MoveApplied == op.name \in {"make_move", "make_move_base_logic"} /\ op.ret = TRUE
Mover == IF op.name = "make_move" THEN op.pre.current_player ELSE op.args.player
Destination == IF op.name = "make_move" THEN op.args[2] ELSE op.args.move[2]
IsHit == Destination /= OFF /\ OpposingAt(op.pre, Mover, Destination) = 1

\* the opponent's checkers are where they were
OpponentUntouched ==
  /\ BarOf(game, Opponent(Mover)) = BarOf(op.pre, Opponent(Mover))
  /\ OffOf(game, Opponent(Mover)) = OffOf(op.pre, Opponent(Mover))
  /\ \A pos \in 1..24 :
       OwnAt(game, Opponent(Mover), pos) = OwnAt(op.pre, Opponent(Mover), pos)

\* C7: a legal move applied by make_move or make_move_base_logic to a
\* destination holding exactly one opposing checker leaves exactly one checker
\* of the mover there and raises the opponent's bar by exactly 1; any other
\* legal move adds exactly one checker of the mover to its destination and
\* leaves the opponent's bar and checkers as they were.
C7_HitSemantics ==
  MoveApplied =>
    IF IsHit
      THEN /\ game.board[Destination] = Sign(Mover)
           /\ BarOf(game, Opponent(Mover)) = BarOf(op.pre, Opponent(Mover)) + 1
      ELSE /\ Destination /= OFF =>
                OwnAt(game, Mover, Destination) = OwnAt(op.pre, Mover, Destination) + 1
           /\ Destination = OFF => OffOf(game, Mover) = OffOf(op.pre, Mover) + 1
           /\ OpponentUntouched

\* make_move hit a blot
C7_Witness == MoveApplied /\ op.name = "make_move" /\ IsHit

CalledPlayableDice ==
  op.name = "_get_strictly_playable_dice" /\ op.args.dice_list[1] /= op.args.dice_list[2]

\* die v has a single move for the player of the call, by the rules of the game
HasSingleMove(gs, player, v) ==
  IF BarOf(gs, player) > 0 THEN OpposingAt(gs, player, EntryPoint(player, v)) <= 1
  ELSE \E p \in 1..24 :
         /\ OwnAt(gs, player, p) > 0
         /\ IF Ahead(player, p, v) \in 1..24
              THEN OpposingAt(gs, player, Ahead(player, p, v)) <= 1
              ELSE /\ AllHome(gs, player)
                   /\ \/ v = DistanceToOff(player, p)
                      \/ \A q \in HomeQuadrant(player) :
                           DistanceToOff(player, q) > DistanceToOff(player, p)
                             => OwnAt(gs, player, q) = 0

LargerDie == Max2(op.args.dice_list[1], op.args.dice_list[2])
SmallerDie == Min2(op.args.dice_list[1], op.args.dice_list[2])

\* C8: for two distinct dice of which exactly one has a legal single move,
\* _get_strictly_playable_dice returns that one value; when neither has one it
\* returns the empty list.
C8_OneOrNoDiePlayable ==
  CalledPlayableDice =>
    LET large == HasSingleMove(op.pre, op.args.player, LargerDie)
        small == HasSingleMove(op.pre, op.args.player, SmallerDie)
    IN  /\ (large /\ ~small) => op.ret = <<LargerDie>>
        /\ (small /\ ~large) => op.ret = <<SmallerDie>>
        /\ (~small /\ ~large) => op.ret = <<>>

\* only the smaller die has a move, and it is the one returned
C8_Witness ==
  /\ CalledPlayableDice
  /\ HasSingleMove(op.pre, op.args.player, SmallerDie)
  /\ ~HasSingleMove(op.pre, op.args.player, LargerDie)
  /\ op.ret = <<SmallerDie>>

\* some legal move with die first leaves a legal move for die second
PlaysBoth(gs, player, first, second) ==
  \E i \in 1..Len(_get_single_moves_for_die(player, first, gs)) :
    LET move == _get_single_moves_for_die(player, first, gs)[i]
    IN  HasSingleMove(make_move_base_logic(gs, player, move[1], move[2]).st, player, second)

\* C9: for two distinct dice a > b that both have a legal single move,
\* _get_strictly_playable_dice returns both values when some legal move with
\* one of them leaves a legal move for the other, in either order, and
\* otherwise returns the larger die a alone.
C9_BothDicePlayable ==
  (/\ CalledPlayableDice
   /\ HasSingleMove(op.pre, op.args.player, LargerDie)
   /\ HasSingleMove(op.pre, op.args.player, SmallerDie)) =>
    IF \/ PlaysBoth(op.pre, op.args.player, LargerDie, SmallerDie)
       \/ PlaysBoth(op.pre, op.args.player, SmallerDie, LargerDie)
      THEN Len(op.ret) = 2 /\ SeqToSet(op.ret) = {LargerDie, SmallerDie}
      ELSE op.ret = <<LargerDie>>

\* each die has a move, no order plays both, and the larger is returned alone
C9_Witness ==
  /\ CalledPlayableDice
  /\ HasSingleMove(op.pre, op.args.player, LargerDie)
  /\ HasSingleMove(op.pre, op.args.player, SmallerDie)
  /\ ~PlaysBoth(op.pre, op.args.player, LargerDie, SmallerDie)
  /\ ~PlaysBoth(op.pre, op.args.player, SmallerDie, LargerDie)
  /\ op.ret = <<LargerDie>>

CalledGenerate == op.name = "generate_possible_next_states_with_sequences"

\* k dice of the roll can be played one after the other, each by a move the
\* single-move generator gives for a die not used yet
RECURSIVE CanPlayDice(_, _, _, _)
CanPlayDice(gs, player, dice, k) ==
  \/ k = 0
  \/ \E die \in SeqToSet(dice) :
       \E move \in SeqToSet(_get_single_moves_for_die(player, die, gs)) :
         CanPlayDice(make_move_base_logic(gs, player, move[1], move[2]).st, player,
                     RemoveFirst(dice, die), k - 1)

MaxDicePlayable(gs, player, dice) ==
  CHOOSE k \in 0..Len(dice) :
    /\ CanPlayDice(gs, player, dice, k)
    /\ \A n \in (k + 1)..Len(dice) : ~CanPlayDice(gs, player, dice, n)

\* C2: the sequences generate_possible_next_states_with_sequences returns all
\* have the same length, the greatest number of dice of the roll that
\* successive legal single moves can play in any order of the dice; the roll
\* (6,5) from the starting position gives sequences that play both dice.
C2_MaxDicePlayed ==
  CalledGenerate =>
    \A i \in 1..Len(op.ret) :
      Len(op.ret[i].seq) = MaxDicePlayable(op.pre, op.args.player, op.args.dice_tuple)

\* the enumerator returned the empty sequence for a roll of which a die can
\* be played
C2_Witness ==
  /\ CalledGenerate
  /\ op.ret = << [st |-> op.pre, seq |-> <<>>] >>
  /\ MaxDicePlayable(op.pre, op.args.player, op.args.dice_tuple) = 1

CalledMinimax == op.name = "get_minimax_score_sampled"

\* C10: get_minimax_score_sampled returns +infinity for a state in which
\* maximizing_player has 15 checkers off and -infinity for a state in which
\* the other player has 15 checkers off, at every depth from 0 on, the
\* depth 0 where the heuristic would otherwise be evaluated included.
C10_TerminalScores ==
  CalledMinimax =>
    /\ OffOf(op.pre, op.args.maximizing_player) = 15 => op.ret = POS_INF
    /\ OffOf(op.pre, Opponent(op.args.maximizing_player)) = 15 => op.ret = NEG_INF

\* a call at depth 0 on a position the opponent of maximizing_player has won
C10_Witness ==
  /\ CalledMinimax
  /\ op.args.depth = 0
  /\ OffOf(op.pre, Opponent(op.args.maximizing_player)) = 15
  /\ op.ret = NEG_INF

CalledSelectAI == op.name = "select_ai_move_minimax" /\ pc = "return"

\* the position and the sequence of a returned pair are those of an outcome
SamePair(ret, outcome) ==
  /\ ret.seq = outcome.seq
  /\ ret.st.board = outcome.st.board
  /\ ret.st.white_bar = outcome.st.white_bar /\ ret.st.black_bar = outcome.st.black_bar
  /\ ret.st.white_off = outcome.st.white_off /\ ret.st.black_off = outcome.st.black_off
  /\ ret.st.current_player = outcome.st.current_player

\* the scores the search gives the outcomes, in their order
OutcomeScores(outcomes, ai_player, rolls) ==
  [i \in 1..Len(outcomes) |->
     get_minimax_score_sampled(outcomes[i].st, Opponent(ai_player), MAX_DEPTH - 1,
                               ai_player, NEG_INF, POS_INF, rolls).score]

\* ret is the outcome of the greatest score, the earliest of them; the first
\* outcome when every score is -infinity (a nan score is no candidate)
GreatestOrAllNegInf(ret, outcomes, scores) ==
  \E k \in 1..Len(outcomes) :
    /\ SamePair(ret, outcomes[k])
    /\ IF \A j \in 1..Len(outcomes) : scores[j] = NEG_INF THEN k = 1
       ELSE /\ scores[k] /= NAN
            /\ \A j \in 1..Len(outcomes) : scores[j] = NAN \/ f_le(scores[j], scores[k])
            /\ \A j \in 1..(k - 1) : scores[j] /= scores[k]

\* ret is the earliest outcome of the greatest score among the scores above
\* -infinity; the first outcome when no score is above -infinity
GreatestOrNoCandidate(ret, outcomes, scores) ==
  \E k \in 1..Len(outcomes) :
    /\ SamePair(ret, outcomes[k])
    /\ IF \A j \in 1..Len(outcomes) : ~f_gt(scores[j], NEG_INF) THEN k = 1
       ELSE /\ f_gt(scores[k], NEG_INF)
            /\ \A j \in 1..Len(outcomes) : ~f_gt(scores[j], scores[k])
            /\ \A j \in 1..(k - 1) : scores[j] /= scores[k]

SelectedStated(ret, outcomes, ai_player, rolls) ==
  no_move_outcome(outcomes)
  \/ GreatestOrAllNegInf(ret, outcomes, OutcomeScores(outcomes, ai_player, rolls))

SelectedAmong(ret, outcomes, ai_player, rolls) ==
  no_move_outcome(outcomes)
  \/ GreatestOrNoCandidate(ret, outcomes, OutcomeScores(outcomes, ai_player, rolls))

\* C11 as stated: select_ai_move_minimax returns one of the pairs the
\* enumerator gives for the roll: the one of the greatest minimax score, the
\* earliest in the enumeration among those of that score, and the first one
\* if every outcome scores -infinity.
C11_GreatestOrAllNegInf ==
  CalledSelectAI =>
    SelectedStated(op.ret,
                   generate_possible_next_states_with_sequences(
                     op.pre, op.args.dice_tuple, op.args.ai_player),
                   op.args.ai_player, op.args.rolls)

\* C11, amended: select_ai_move_minimax returns one of the pairs the
\* enumerator gives for the roll: the earliest one of the greatest score among
\* the scores that compare above -infinity, and the first enumerated one when
\* no score does (every score is -infinity or nan).
C11_SelectsGreatestScore ==
  CalledSelectAI =>
    SelectedAmong(op.ret,
                  generate_possible_next_states_with_sequences(
                    op.pre, op.args.dice_tuple, op.args.ai_player),
                  op.args.ai_player, op.args.rolls)

\* the AI had several outcomes to choose from and returned another than the first
ReturnsLaterOutcome(ret, outcomes) ==
  /\ Len(outcomes) >= 2
  /\ \E k \in 2..Len(outcomes) : SamePair(ret, outcomes[k])

C11_Witness ==
  /\ CalledSelectAI
  /\ ReturnsLaterOutcome(op.ret,
                         generate_possible_next_states_with_sequences(
                           op.pre, op.args.dice_tuple, op.args.ai_player))

\* no die of the roll has a legal single move for the AI
NoLegalMove(gs, dice_tuple, player) ==
  \A i \in 1..Len(dice_tuple) : ~HasSingleMove(gs, player, dice_tuple[i])

\* C12: when no legal move exists for the AI's roll, select_ai_move_minimax
\* returns the empty sequence with the state it was given: board, bars, offs,
\* dice, current_player and winner (and every other field) as before the call.
C12_NoMoveReturnsInput ==
  (CalledSelectAI /\ NoLegalMove(op.pre, op.args.dice_tuple, op.args.ai_player)) =>
    /\ op.ret.seq = <<>>
    /\ op.ret.st = op.pre

\* the AI was called with a roll in its dice pool that gives it no move
C12_Witness ==
  /\ CalledSelectAI
  /\ op.pre.dice /= <<>>
  /\ op.args.dice_tuple = op.pre.dice
  /\ NoLegalMove(op.pre, op.args.dice_tuple, op.args.ai_player)
  /\ op.ret.st.dice = op.pre.dice

\* make_move was called; game is the object after the call
CalledMakeMove == op.name = "make_move"

\* the position make_move was given is the one the object holds after the call
PositionRestored ==
  /\ game.board = op.pre.board
  /\ game.white_bar = op.pre.white_bar /\ game.black_bar = op.pre.black_bar
  /\ game.white_off = op.pre.white_off /\ game.black_off = op.pre.black_off
  /\ game.dice = op.pre.dice

\* the call found a die for the move and went on to apply it
MoveAttempted == die_to_remove(op.pre, op.args[1], op.args[2]) /= NoDie

\* applying the move raised: the destination holds two or more opposing checkers
RaisedOnBlockedPoint ==
  /\ MoveAttempted
  /\ op.args[2] /= OFF
  /\ OpposingAt(op.pre, op.pre.current_player, op.args[2]) >= 2

\* the move was applied and left a colour with another number of checkers than 15
CountCheckFailed == MoveAttempted /\ ~RaisedOnBlockedPoint /\ ~Conserved(game)

\* C13: whenever make_move detects an internal invariant violation (the
\* checker count is wrong after the move, or applying the move raised), board,
\* bars, offs and dice are as before the call, the call returns failure and
\* winner is ERROR.
C13_ViolationRolledBack ==
  (CalledMakeMove /\ (RaisedOnBlockedPoint \/ CountCheckFailed)) =>
    /\ PositionRestored
    /\ op.ret = FALSE
    /\ game.winner = ERROR

\* a move onto a point the opponent holds was attempted and rolled back
C13_Witness ==
  /\ CalledMakeMove
  /\ RaisedOnBlockedPoint
  /\ PositionRestored
  /\ game.winner = ERROR

\* the move make_move was given is not one of the object's legal moves
IllegalMoveGiven == CalledMakeMove /\ op.args \notin op.pre.available_moves

\* C14: make_move called with a move that is not in the current legal-move
\* set returns failure and leaves board, bars, offs, dice and winner as they
\* were.
C14_IllegalMoveRejected ==
  IllegalMoveGiven =>
    /\ op.ret = FALSE
    /\ PositionRestored
    /\ game.winner = op.pre.winner

\* an illegal move for which the dice pool holds no die was refused
C14_Witness ==
  /\ IllegalMoveGiven
  /\ ~MoveAttempted
  /\ op.ret = FALSE
  /\ game = op.pre

\* make_move returned True
MoveSucceeded == CalledMakeMove /\ op.ret = TRUE

\* s without its i-th element
WithoutIndex(s, i) == [j \in 1..(Len(s) - 1) |-> IF j < i THEN s[j] ELSE s[j + 1]]

\* m is a legal single move of player with a die showing v, by the rules of the game
SingleMove(gs, player, v, m) ==
  IF BarOf(gs, player) > 0
    THEN m = <<BAR, EntryPoint(player, v)>> /\ OpposingAt(gs, player, m[2]) <= 1
    ELSE /\ m[1] \in 1..24
         /\ OwnAt(gs, player, m[1]) > 0
         /\ IF Ahead(player, m[1], v) \in 1..24
              THEN m[2] = Ahead(player, m[1], v) /\ OpposingAt(gs, player, m[2]) <= 1
              ELSE /\ m[2] = OFF
                   /\ AllHome(gs, player)
                   /\ \/ v = DistanceToOff(player, m[1])
                      \/ \A q \in HomeQuadrant(player) :
                           DistanceToOff(player, q) > DistanceToOff(player, m[1])
                             => OwnAt(gs, player, q) = 0

\* the legal moves of the player to move when the dice left show one value (or none)
LegalMovesLeft(gs) ==
  { m \in ({BAR} \cup (1..24)) \X ((1..24) \cup {OFF}) :
      \E v \in SeqToSet(gs.dice) : SingleMove(gs, gs.current_player, v, m) }

\* C15: a make_move that returns True removes exactly one die from the pool
\* and leaves the others in place, sets available_moves to the legal moves of
\* the new state for the dice left, and sets winner to the mover exactly when
\* the mover has 15 checkers off (winner stays None otherwise).
C15_SuccessfulMove ==
  MoveSucceeded =>
    /\ \E i \in 1..Len(op.pre.dice) : game.dice = WithoutIndex(op.pre.dice, i)
    /\ Cardinality(SeqToSet(game.dice)) <= 1
    /\ game.available_moves = LegalMovesLeft(game)
    /\ game.winner = IF OffOf(game, Mover) = 15 THEN Mover ELSE None

\* a move that left dice and moves to play, and a move that won the game
C15_Witness ==
  /\ MoveSucceeded
  /\ \/ game.dice /= <<>> /\ game.available_moves /= {} /\ game.winner = None
     \/ game.winner = Mover

\* one of the three queries was called; game is the object after the call
CalledQuery ==
  op.name \in {"calculate_pip", "determine_game_phase", "evaluate_position_heuristic"}

\* a fresh object holding the board, the bars and the offs of gs and nothing else of it
SamePosition(gs) ==
  [board |-> gs.board, white_bar |-> gs.white_bar, black_bar |-> gs.black_bar,
   white_off |-> gs.white_off, black_off |-> gs.black_off, winner |-> None,
   current_player |-> "w", dice |-> <<>>, available_moves |-> {},
   current_phase |-> "OPENING"]

\* what the query of the call returns on the object gs
QueryResult(gs) ==
  IF op.name = "calculate_pip" THEN calculate_pip(op.args.player, gs)
  ELSE IF op.name = "determine_game_phase" THEN determine_game_phase(gs)
  ELSE evaluate_position_heuristic(gs, op.args.player_to_evaluate,
                                   PHASE_WEIGHTS(op.args.weights))

\* the result is the one the same board, bars and offs give on any object
ResultOfPosition == op.ret = QueryResult(SamePosition(op.pre))

\* C16 as stated: calculate_pip, determine_game_phase and
\* evaluate_position_heuristic, called any number of times and in any order,
\* leave every field of the object unchanged and return the same result for
\* the same board, bars and offs.
C16_PureQueries == CalledQuery => (game = op.pre /\ ResultOfPosition)

\* C16, amended: the three queries return the same result for the same
\* board, bars and offs and leave every field of the object unchanged, except
\* that determine_game_phase stores the phase it returns in current_phase.
C16_QueriesKeepPosition ==
  CalledQuery =>
    /\ ResultOfPosition
    /\ game = IF op.name = "determine_game_phase"
                THEN [op.pre EXCEPT !.current_phase = op.ret] ELSE op.pre

\* determine_game_phase was called on an object whose stored phase was another
C16_Witness ==
  /\ op.name = "determine_game_phase"
  /\ op.pre.current_phase /= op.ret
  /\ game.current_phase = op.ret

\* the pip count of player: the distances to off of its checkers, 25 for one on the bar
PipCount(gs, player) ==
  SumSeq([pos \in 1..24 |-> DistanceToOff(player, pos) * OwnAt(gs, player, pos)])
  + 25 * BarOf(gs, player)

\* every checker of player is in its home quadrant and its bar is empty
HomeWithEmptyBar(gs, player) == AllHome(gs, player) /\ BarOf(gs, player) = 0

CalledPhase == op.name = "determine_game_phase"

\* C17: determine_game_phase returns ENDGAME if white_off > 0 or black_off > 0
\* or both players have all their checkers in their home quadrant with empty
\* bars; otherwise OPENING if the two pip counts sum to more than 280;
\* otherwise MIDGAME (a sum of exactly 280 is MIDGAME).
C17_PhaseRule ==
  CalledPhase =>
    op.ret = IF \/ op.pre.white_off > 0
                \/ op.pre.black_off > 0
                \/ (HomeWithEmptyBar(op.pre, "w") /\ HomeWithEmptyBar(op.pre, "b"))
               THEN "ENDGAME"
             ELSE IF PipCount(op.pre, "w") + PipCount(op.pre, "b") > 280 THEN "OPENING"
             ELSE "MIDGAME"

\* nobody has borne off, the pip counts sum to exactly 280, and the phase is MIDGAME
C17_Witness ==
  /\ CalledPhase
  /\ op.pre.white_off = 0 /\ op.pre.black_off = 0
  /\ PipCount(op.pre, "w") + PipCount(op.pre, "b") = 280
  /\ op.ret = "MIDGAME"

\* the checkers of player on the board, on the bar and off
TotalCheckers(gs, player) == OnBoard(gs, player) + BarOf(gs, player) + OffOf(gs, player)

\* white has played out the roll (3,1) of the first turn
PlayedThreeOne ==
  /\ op.name = "turn"
  /\ op.pre = NewGame
  /\ op.args.roll \in {<<3, 1>>, <<1, 3>>}
  /\ pc = "end_turn"

\* C18: the initial state has 15 checkers of each colour on the board, empty
\* bars and offs, white to move, an empty dice pool and phase OPENING; after
\* white plays any full legal sequence for the roll (3,1) from it, white still
\* has 15 checkers in all and the phase is still OPENING.
C18_OpeningPosition ==
  /\ op.name = "init" =>
       /\ OnBoard(game, "w") = 15 /\ OnBoard(game, "b") = 15
       /\ game.white_bar = 0 /\ game.black_bar = 0
       /\ game.white_off = 0 /\ game.black_off = 0
       /\ game.current_player = "w"
       /\ game.dice = <<>>
       /\ game.current_phase = "OPENING"
  /\ PlayedThreeOne =>
       /\ TotalCheckers(game, "w") = 15
       /\ game.current_phase = "OPENING"
       /\ PipCount(game, "w") + PipCount(game, "b") > 280

\* white played both dice of the roll (3,1), the 1 from point 1 and the 3 from point 12
C18_Witness ==
  /\ PlayedThreeOne
  /\ SeqToSet(op.args.played_sequence_this_turn) = {<<1, 2>>, <<12, 15>>}
  /\ game.dice = <<>>

\* the enumerator returned the single no-op result: the position it was given, no move
NoOpResult ==
  /\ Len(op.ret) = 1
  /\ op.ret[1].seq = <<>>
  /\ op.ret[1].st.board = op.pre.board
  /\ op.ret[1].st.white_bar = op.pre.white_bar /\ op.ret[1].st.black_bar = op.pre.black_bar
  /\ op.ret[1].st.white_off = op.pre.white_off /\ op.ret[1].st.black_off = op.pre.black_off

\* some die of the roll has a legal single move from the position the call was given
SomeDiePlayable ==
  \E i \in 1..Len(op.args.dice_tuple) :
    HasSingleMove(op.pre, op.args.player, op.args.dice_tuple[i])

\* C19: generate_possible_next_states_with_sequences returns the single no-op
\* result (unchanged state, empty sequence) if and only if no die of the roll
\* has a legal single move from the starting state; whenever some die has one,
\* every returned sequence holds at least one move.
C19_NoOpIffNoMove ==
  CalledGenerate =>
    /\ NoOpResult <=> ~SomeDiePlayable
    /\ SomeDiePlayable => \A i \in 1..Len(op.ret) : Len(op.ret[i].seq) >= 1

\* no die of the roll has a move and the no-op result is returned
C19_Witness ==
  /\ CalledGenerate
  /\ ~SomeDiePlayable
  /\ NoOpResult

\* the call did not stop at a finished game or at depth 0: it is a chance node
ChanceNode == CalledMinimax /\ ~is_game_over(op.pre) /\ op.args.depth > 0

\* the loop variables of the node once its first k sampled rolls are processed:
\* alpha and beta are the bounds the branches of sample k + 1 start with
AfterSamples(k) ==
  eval_samples(op.pre, op.args.current_turn_player, op.args.depth,
               op.args.maximizing_player,
               [acc |-> Finite(0), alpha |-> NEG_INF, beta |-> POS_INF,
                touched |-> FALSE, n |-> 0],
               op.args.rolls, op.args.current_turn_player = op.args.maximizing_player,
               SubSeq(op.args.rolls[op.args.depth], 1, k))

\* C20: at a chance node of get_minimax_score_sampled the alpha and beta in
\* force when the branches of a sampled roll start being evaluated are the
\* alpha and beta the node was called with (here -infinity and +infinity),
\* whatever the branches of the samples processed before produced.
C20_BoundsPerSample ==
  ChanceNode =>
    \A k \in 0..(SampleCount - 1) :
      AfterSamples(k).alpha = NEG_INF /\ AfterSamples(k).beta = POS_INF

\* the first sampled roll was processed and the second starts with the node's bounds
C20_Witness ==
  /\ ChanceNode
  /\ AfterSamples(1).n = 1
  /\ AfterSamples(1).alpha = NEG_INF /\ AfterSamples(1).beta = POS_INF

\* the k-th roll the chance node samples, and the dice of the turn it gives
SampleRoll(k) == op.args.rolls[op.args.depth][k]

\* the k-th sampled roll gives the player to move no legal move
SampleHasNoMove(k) ==
  NoLegalMove(op.pre, dice_for_turn(SampleRoll(k)), op.args.current_turn_player)

\* the evaluation of the node's own state with the opponent to move, one ply
\* down, under the bounds in force when sample k starts
OnePlyDown(k) ==
  get_minimax_score_sampled(op.pre, Opponent(op.args.current_turn_player),
                            op.args.depth - 1, op.args.maximizing_player,
                            AfterSamples(k - 1).alpha, AfterSamples(k - 1).beta,
                            op.args.rolls).score

\* C21: when a sampled roll at a chance node has no legal move, the value the
\* sample adds to the node's sum is the evaluation of the same state with the
\* opponent to move and the depth reduced by one, as it is (no maximum or
\* minimum with the sample's starting value), and the sample leaves alpha and
\* beta as it found them.
C21_NoMoveSampleRecurses ==
  ChanceNode =>
    \A k \in 1..SampleCount :
      SampleHasNoMove(k) =>
        /\ AfterSamples(k).acc = f_add(AfterSamples(k - 1).acc, OnePlyDown(k))
        /\ AfterSamples(k).alpha = AfterSamples(k - 1).alpha
        /\ AfterSamples(k).beta = AfterSamples(k - 1).beta

\* a node whose first sampled roll was searched and moved a bound, and whose
\* second sampled roll has no move
C21_Witness ==
  /\ ChanceNode
  /\ ~SampleHasNoMove(1)
  /\ SampleHasNoMove(2)
  /\ AfterSamples(1).alpha /= NEG_INF
  /\ AfterSamples(2).acc = f_add(AfterSamples(1).acc, OnePlyDown(2))

\* the call of the search op records, or the one whose returned object was mutated later
SearchCall == IF op.name = "later_mutation" THEN op.args.call ELSE op

CalledSearch ==
  SearchCall.name \in {"generate_possible_next_states_with_sequences",
                       "get_minimax_score_sampled", "select_ai_move_minimax"}

\* select_ai_move_minimax was called with a roll of which some die has a legal move
SelectHadLegalMove ==
  /\ SearchCall.name = "select_ai_move_minimax"
  /\ ~NoLegalMove(SearchCall.pre, SearchCall.args.dice_tuple, SearchCall.args.ai_player)

\* the object given to the call holds the position, dice and player it held before
InputKept ==
  /\ game.board = SearchCall.pre.board
  /\ game.white_bar = SearchCall.pre.white_bar /\ game.black_bar = SearchCall.pre.black_bar
  /\ game.white_off = SearchCall.pre.white_off /\ game.black_off = SearchCall.pre.black_off
  /\ game.dice = SearchCall.pre.dice
  /\ game.current_player = SearchCall.pre.current_player

\* no state the call returned is the object it was given
ReturnedDistinct ==
  SearchCall.name /= "get_minimax_score_sampled" =>
    \A i \in 1..Len(returned_objects(SearchCall)) : ~returned_objects(SearchCall)[i].is_input

\* C22: after generate_possible_next_states_with_sequences,
\* get_minimax_score_sampled, or select_ai_move_minimax with at least one
\* legal move, the input state's board, bars, offs, dice and current_player are
\* what they were before the call, every returned final state is an object
\* distinct from the input, and a later mutation of a returned state leaves
\* the input as it was.
C22_SearchKeepsInput ==
  (CalledSearch /\ (SearchCall.name = "select_ai_move_minimax" => SelectHadLegalMove)) =>
    /\ InputKept
    /\ ReturnedDistinct

\* the AI chose among enumerated moves, the state it returned was mutated
\* later, and the object it was given kept its position
C22_Witness ==
  /\ op.name = "later_mutation"
  /\ SelectHadLegalMove
  /\ SearchCall.ret.seq /= <<>>
  /\ ~op.args.is_input
  /\ op.ret.current_player /= game.current_player
  /\ InputKept

\* the object the rule function was given holds what it held before the call
StateAsBefore ==
  /\ game.board = op.pre.board
  /\ game.white_bar = op.pre.white_bar /\ game.black_bar = op.pre.black_bar
  /\ game.white_off = op.pre.white_off /\ game.black_off = op.pre.black_off
  /\ game.dice = op.pre.dice
  /\ game.current_player = op.pre.current_player
  /\ game.winner = op.pre.winner

FreshRoll(dice) ==
  /\ \A i \in 1..Len(dice) : dice[i] \in 1..6
  /\ \/ Len(dice) = 2 /\ dice[1] /= dice[2]
     \/ Len(dice) = 4 /\ \A i \in 1..4 : dice[i] = dice[1]

\* the pool is the pool of before the call without one of its values
OneDieRemoved == \E i \in 1..Len(op.pre.dice) : game.dice = WithoutIndex(op.pre.dice, i)

\* C24: roll_dice sets the dice pool to two distinct values or to four equal
\* values, each in 1..6; a make_move that returns True removes exactly one
\* value from it; a make_move that returns failure leaves the pool as it was;
\* the pool never holds more than 4 dice.
C24_DicePool ==
  /\ Len(game.dice) <= 4
  /\ op.name = "roll_dice" => FreshRoll(game.dice)
  /\ MoveSucceeded => OneDieRemoved
  /\ (CalledMakeMove /\ op.ret = FALSE) => game.dice = op.pre.dice

\* a move onto a blocked point failed after a die was found for it, and the
\* pool of a double is as it was
C24_Witness ==
  /\ CalledMakeMove /\ op.ret = FALSE
  /\ RaisedOnBlockedPoint
  /\ FreshRoll(op.pre.dice) /\ Len(op.pre.dice) = 4
  /\ game.dice = op.pre.dice

\* the steps of a turn: the roll (which runs get_legal_actions), a move
\* entered by the human, a refused entry, a pass, the AI's choice
WithinTurn ==
  op.name \in {"roll_dice", "make_move", "rejected", "pass", "select_ai_move_minimax"}

\* the final states the enumerator returns for the roll the AI was given
EnumeratedForAI ==
  generate_possible_next_states_with_sequences(op.pre, op.pre.dice, op.pre.current_player)

\* C25: make_move, roll_dice, get_legal_actions and the sequence enumerator
\* leave current_player as it is (every final state the enumerator returns
\* for a roll has the current_player of the input); switch_player changes it
\* to the other of w and b and empties dice and available_moves.
C25_PlayerChangesAtTurnBoundary ==
  /\ WithinTurn => game.current_player = op.pre.current_player
  /\ op.name = "select_ai_move_minimax" =>
       \A i \in 1..Len(EnumeratedForAI) :
         EnumeratedForAI[i].st.current_player = op.pre.current_player
  /\ op.name = "switch_player" =>
       /\ op.pre.current_player \in {"w", "b"}
       /\ game.current_player = Opponent(op.pre.current_player)
       /\ game.dice = <<>>
       /\ game.available_moves = {}

\* the turn passed to the other player with dice and moves left unplayed
C25_Witness ==
  /\ op.name = "switch_player"
  /\ op.pre.dice /= <<>> /\ op.pre.available_moves /= {}
  /\ op.pre.current_player = "b" /\ game.current_player = "w"
  /\ game.dice = <<>> /\ game.available_moves = {}

\* how often v occurs in the pool
CountIn(v, pool) == Cardinality({i \in 1..Len(pool) : pool[i] = v})

\* the value of which the pool holds one less after the call
RemovedDie ==
  CHOOSE v \in SeqToSet(op.pre.dice) : CountIn(v, game.dice) = CountIn(v, op.pre.dice) - 1

\* the exact distance of a move: to the entry point, to the destination, to off
ExactDistance(player, src, dst) ==
  IF src = BAR THEN (IF player = "w" THEN dst ELSE 25 - dst)
  ELSE IF dst = OFF THEN DistanceToOff(player, src)
  ELSE IF player = "w" THEN dst - src ELSE src - dst

\* a die greater than the distance may bear the checker on src off: every
\* checker of the player is home and none is farther from off than src
OvershootPermitted(gs, player, src) ==
  /\ BarOf(gs, player) = 0 /\ AllHome(gs, player)
  /\ src \in HomeQuadrant(player)
  /\ \A q \in HomeQuadrant(player) :
       DistanceToOff(player, q) > DistanceToOff(player, src) => OwnAt(gs, player, q) = 0

\* the dice of the pool that can make the bear-off from src
BearOffDice(gs, player, src, pool) ==
  { d \in SeqToSet(pool) :
      \/ d = DistanceToOff(player, src)
      \/ d > DistanceToOff(player, src) /\ OvershootPermitted(gs, player, src) }

\* the die the move is to consume: the exact one when the pool holds it, else
\* the smallest one of the pool that can make the bear-off
DieToConsume(gs, player, src, dst, pool) ==
  IF ExactDistance(player, src, dst) \in SeqToSet(pool) THEN ExactDistance(player, src, dst)
  ELSE CHOOSE d \in BearOffDice(gs, player, src, pool) :
         \A e \in BearOffDice(gs, player, src, pool) : d <= e

\* make_move took a die out of the pool
DieTaken == CalledMakeMove /\ game.dice /= op.pre.dice

\* the enumerator found a die to consume for a move
DieConsumed == op.name = "consumed_die" /\ op.ret /= NoDie

\* C26: the die a move consumes is the die equal to the move's exact distance
\* if the pool holds it; otherwise the move is a bear-off and the die is the
\* smallest die of the pool that is at least the checker's distance to off and
\* that the overshoot rule permits.  In make_move and in the enumerator.
C26_DieConsumed ==
  /\ DieTaken =>
       /\ ExactDistance(Mover, op.args[1], op.args[2]) \notin SeqToSet(op.pre.dice)
            => op.args[2] = OFF
                 /\ BearOffDice(op.pre, Mover, op.args[1], op.pre.dice) /= {}
       /\ RemovedDie = DieToConsume(op.pre, Mover, op.args[1], op.args[2], op.pre.dice)
  /\ DieConsumed =>
       /\ ExactDistance(op.args.player, op.args.move[1], op.args.move[2])
            \notin SeqToSet(op.args.dice_rem_tuple)
            => op.args.move[2] = OFF
                 /\ BearOffDice(op.pre, op.args.player, op.args.move[1],
                                op.args.dice_rem_tuple) /= {}
       /\ op.ret = DieToConsume(op.pre, op.args.player, op.args.move[1], op.args.move[2],
                                op.args.dice_rem_tuple)

\* a bear-off for which the pool holds two dice beyond the distance and not
\* the exact one: make_move took the smaller of the two
C26_Witness ==
  /\ MoveSucceeded
  /\ op.args[2] = OFF
  /\ Len(op.pre.dice) = 2
  /\ \A i \in 1..2 : op.pre.dice[i] > DistanceToOff(Mover, op.args[1])
  /\ op.pre.dice[1] /= op.pre.dice[2]
  /\ RemovedDie = Min2(op.pre.dice[1], op.pre.dice[2])

\* the position a state describes: the 24 point counts, the bars, the offs, the player to move
BoardIdentity(gs) ==
  <<gs.board, gs.white_bar, gs.black_bar, gs.white_off, gs.black_off, gs.current_player>>

\* the two moves of the sequence played in the other order, by the rules of the moves
PlayedInReverse(gs, player, seq) ==
  make_move_base_logic(make_move_base_logic(gs, player, seq[2][1], seq[2][2]).st,
                       player, seq[1][1], seq[1][2])

\* C27: the final states generate_possible_next_states_with_sequences returns
\* for one call are pairwise distinct in board identity: no two returned pairs
\* describe the same resulting position.
C27_FinalStatesDistinct ==
  CalledGenerate =>
    \A i \in 1..Len(op.ret) : \A j \in 1..Len(op.ret) :
      i /= j => BoardIdentity(op.ret[i].st) /= BoardIdentity(op.ret[j].st)

\* several final states were returned, one of them a position that its two
\* moves reach in either order
C27_Witness ==
  /\ CalledGenerate
  /\ Len(op.ret) >= 2
  /\ Len(op.args.dice_tuple) = 2
  /\ \E i \in 1..Len(op.ret) :
       /\ Len(op.ret[i].seq) = 2
       /\ op.ret[i].seq[1] /= op.ret[i].seq[2]
       /\ op.ret[i].seq[1][2] /= op.ret[i].seq[2][1]
       /\ make_move_base_logic(op.pre, op.args.player, op.ret[i].seq[2][1],
                               op.ret[i].seq[2][2]).ok
       /\ PlayedInReverse(op.pre, op.args.player, op.ret[i].seq).ok
       /\ BoardIdentity(PlayedInReverse(op.pre, op.args.player, op.ret[i].seq).st)
            = BoardIdentity(op.ret[i].st)

\* the set of positions among the final states of a result of the enumerator
FinalPositions(outcomes) == {BoardIdentity(outcomes[i].st) : i \in 1..Len(outcomes)}

\* the call of the enumerator was given two dice of different values
CalledGenerateNonDouble ==
  /\ CalledGenerate
  /\ Len(op.args.dice_tuple) = 2
  /\ op.args.dice_tuple[1] /= op.args.dice_tuple[2]

\* what the enumerator returns for the same state with the two dice in the other order
GeneratedInOtherOrder ==
  generate_possible_next_states_with_sequences(
    op.pre, <<op.args.dice_tuple[2], op.args.dice_tuple[1]>>, op.args.player)

\* C28: for every state and two dice a, b of different values,
\* generate_possible_next_states_with_sequences returns the same set of final
\* positions for (a,b) and for (b,a), and _get_strictly_playable_dice returns
\* the same set of die values for [a,b] and for [b,a].
C28_DiceOrderIrrelevant ==
  /\ CalledGenerateNonDouble =>
       FinalPositions(op.ret) = FinalPositions(GeneratedInOtherOrder)
  /\ CalledPlayableDice =>
       SeqToSet(op.ret)
         = SeqToSet(_get_strictly_playable_dice(
                      op.pre, <<op.args.dice_list[2], op.args.dice_list[1]>>,
                      op.args.player))

\* the enumerator was given the smaller die first and returned several final
\* positions, the ones it returns for the larger die first
C28_Witness ==
  /\ CalledGenerateNonDouble
  /\ op.args.dice_tuple[1] < op.args.dice_tuple[2]
  /\ Cardinality(FinalPositions(op.ret)) >= 2
  /\ FinalPositions(op.ret) = FinalPositions(GeneratedInOtherOrder)

\* select_ai_move_minimax was called on a state whose get_legal_actions, for
\* the roll in its dice, is not empty
AIHadLegalAction ==
  /\ CalledSelectAI
  /\ op.pre.dice = op.args.dice_tuple
  /\ get_legal_actions(op.pre) /= {}

\* the roll of the call can bear the last checker of the AI off
AICanBearLastOff ==
  /\ AIHadLegalAction
  /\ OffOf(op.pre, op.args.ai_player) = 14
  /\ \E move \in get_legal_actions(op.pre) : move[2] = OFF

\* C29: whenever get_legal_actions is not empty for the AI's roll,
\* select_ai_move_minimax returns a non-empty sequence and a state whose
\* position differs from the input's; an AI whose last checker can be borne
\* off with the roll bears it off.
C29_AIMovesWhenItCan ==
  /\ AIHadLegalAction =>
       /\ op.ret.seq /= <<>>
       /\ BoardIdentity(op.ret.st) /= BoardIdentity(op.pre)
  /\ AICanBearLastOff => OffOf(op.ret.st, op.args.ai_player) = 15

\* the AI bore its last checker off with a double
C29_Witness ==
  /\ AICanBearLastOff
  /\ op.args.dice_tuple[1] = op.args.dice_tuple[2]
  /\ op.ret.seq /= <<>>
  /\ OffOf(op.ret.st, op.args.ai_player) = 15

\* the live turn is over: the dice pool or available_moves is empty
LiveTurnPlayed ==
  /\ op.name = "turn"
  /\ pc = "end_turn"
  /\ game.dice = <<>> \/ game.available_moves = {}

\* the state the turn's dice were rolled on, with the roll in its dice
StateAtRoll == rolled(after_determine_game_phase(op.pre), op.args.roll[1], op.args.roll[2])

\* what the enumerator returns for the state and the roll of the turn
EnumeratedForTurn ==
  generate_possible_next_states_with_sequences(StateAtRoll, StateAtRoll.dice,
                                               StateAtRoll.current_player)

\* the position the live turn ended in is one the enumerator returns
EndsAsEnumerated(outcomes) == BoardIdentity(game) \in FinalPositions(outcomes)

\* C30: every maximal turn played through available_moves and make_move ends
\* in a position that generate_possible_next_states_with_sequences returns for
\* the state and the roll the turn began with.
C30_LiveTurnIsEnumerated == LiveTurnPlayed => EndsAsEnumerated(EnumeratedForTurn)

\* a live turn played both dice of a roll of which a first move could have
\* left the second die without a move, and ended in a position the enumerator
\* returns
C30_Witness ==
  /\ LiveTurnPlayed
  /\ op.pre = FiveBehindOne
  /\ op.args.roll = <<5, 1>>
  /\ Len(op.args.played_sequence_this_turn) = 2
  /\ EndsAsEnumerated(EnumeratedForTurn)

\* make_move_base_logic returned False
BaseMoveFailed == CalledBaseMove /\ pc = "return" /\ op.ret = FALSE

\* the board, the bars and the offs are what they were before the call
PositionAsBefore ==
  /\ game.board = op.pre.board
  /\ game.white_bar = op.pre.white_bar /\ game.black_bar = op.pre.black_bar
  /\ game.white_off = op.pre.white_off /\ game.black_off = op.pre.black_off

\* C31: whenever make_move_base_logic returns False, the board, both bar
\* counts and both off counts are what they were before the call, also when
\* the source is the bar and the entry point is blocked.
C31_BaseMoveAtomicOnFailure == BaseMoveFailed => PositionAsBefore

\* a move from a point onto two or more opposing checkers failed and the
\* checker taken from the source was put back
C31_Witness ==
  /\ BaseMoveFailed
  /\ op.args.move[1] \in 1..24 /\ op.args.move[2] \in 1..24
  /\ OwnAt(op.pre, op.args.player, op.args.move[1]) > 0
  /\ OpposingAt(op.pre, op.args.player, op.args.move[2]) >= 2
  /\ PositionAsBefore

\* the moves of seq, applied in order to gs with make_move_base_logic, each
\* succeed, each is a move the single-move generator gives for a die of dice
\* not used by an earlier move, and they leave the board, bars and offs of final
RECURSIVE Replays(_, _, _, _, _)
Replays(gs, player, dice, seq, final) ==
  IF seq = <<>> THEN BoardIdentity(gs) = BoardIdentity(final)
  ELSE \E die \in SeqToSet(dice) :
         /\ InSeq(Head(seq), _get_single_moves_for_die(player, die, gs))
         /\ make_move_base_logic(gs, player, Head(seq)[1], Head(seq)[2]).ok
         /\ Replays(make_move_base_logic(gs, player, Head(seq)[1], Head(seq)[2]).st,
                    player, RemoveFirst(dice, die), Tail(seq), final)

\* C32: every (final_state, sequence) pair that
\* generate_possible_next_states_with_sequences returns replays: the moves of
\* the sequence, applied in order to the starting state with
\* make_move_base_logic, succeed, each is legal per the single-move generator
\* for a die of the roll not yet used, and they give final_state's board, bars
\* and offs; a sequence has at most as many moves as the roll has dice.
C32_SequencesReplay ==
  CalledGenerate =>
    \A i \in 1..Len(op.ret) :
      /\ Replays(op.pre, op.args.player, op.args.dice_tuple, op.ret[i].seq, op.ret[i].st)
      /\ Len(op.ret[i].seq) <= Len(op.args.dice_tuple)

\* the enumerator returned a sequence of four moves for a double, and the
\* sequence replays
C32_Witness ==
  /\ CalledGenerate
  /\ Len(op.args.dice_tuple) = 4
  /\ \E i \in 1..Len(op.ret) :
       /\ Len(op.ret[i].seq) = 4
       /\ Replays(op.pre, op.args.player, op.args.dice_tuple, op.ret[i].seq, op.ret[i].st)

\* available_moves holds what get_legal_actions returns for the state as it is
CacheIsCurrent == game.available_moves = get_legal_actions(game)

\* C33: in every state reached by roll_dice, make_move (successful or
\* failed), switch_player and the adoption of the state
\* select_ai_move_minimax returns, available_moves holds exactly the moves
\* get_legal_actions returns for the current board, dice and current_player,
\* and it is empty whenever the dice pool is empty.
C33_MoveCacheConsistent ==
  /\ CacheIsCurrent
  /\ game.dice = <<>> => game.available_moves = {}

\* make_move failed at its count check with a die taken and the position
\* changed, and available_moves is what get_legal_actions returns for the
\* state it left
C33_Witness ==
  /\ op.name = "make_move"
  /\ op.ret = FALSE
  /\ Len(game.dice) < Len(op.pre.dice)
  /\ game.available_moves /= op.pre.available_moves
  /\ CacheIsCurrent

\* a legal move of either player was applied
LegalMoveApplied ==
  \/ CalledBaseMove /\ op.ret = TRUE
  \/ op.name = "make_move" /\ op.ret = TRUE

PipDecrease == calculate_pip(op.args.player, op.pre) - calculate_pip(op.args.player, game)

\* the distance to off of the checker the move took (25 from the bar)
MoverDistanceToOff ==
  IF op.args.move[1] = BAR THEN 25
  ELSE IF op.args.player = "w" THEN 25 - op.args.move[1] ELSE op.args.move[1]

\* the dice for which _get_single_moves_for_die returns the move applied
DiceOfMove ==
  {v \in 1..6 : InSeq(op.args.move, _get_single_moves_for_die(op.args.player, v, op.pre))}

\* C35: a move that _get_single_moves_for_die returns for die v, once applied,
\* has decreased the mover's calculate_pip by exactly v (a bar entry counted
\* from 25), except a bear-off with a die greater than the checker's distance
\* to off, which decreases it by that distance; the mover's off count has
\* not decreased and the mover's pip count has not increased.
C35_PipDecreasesByDie ==
  (CalledBaseMove /\ op.ret = TRUE) =>
    /\ \A v \in DiceOfMove :
         \/ PipDecrease = v
         \/ op.args.move[2] = OFF /\ MoverDistanceToOff < v /\ PipDecrease = MoverDistanceToOff
    /\ OffOf(game, op.args.player) >= OffOf(op.pre, op.args.player)
    /\ PipDecrease >= 0

\* a checker was borne off with a die greater than its distance to off and
\* the pip count went down by the distance
C35_Witness ==
  /\ CalledBaseMove /\ op.ret = TRUE
  /\ op.args.move[2] = OFF
  /\ \E v \in DiceOfMove : MoverDistanceToOff < v
  /\ PipDecrease = MoverDistanceToOff

-----------------------------------------------------------------------------
\* the state the loop adopted at line 1217 is the one the AI returned
AIReturnedToLoop == op.name = "select_ai_move_minimax"

\* somebody has 15 checkers off in gs
AllOffIn(gs) == gs.white_off >= 15 \/ gs.black_off >= 15

\* C36: when select_ai_move_minimax returns a state in which the AI player
\* has 15 checkers off, winner in that state is the AI player and the loop
\* that adopted it goes to its end, never to switch_player; and in every
\* state of the game between two moves in which winner is None, both off
\* counts are below 15.
C36_AIWinRecorded ==
  /\ (AIReturnedToLoop /\ OffOf(game, Opponent(human_player)) >= 15) =>
       /\ game.winner = Opponent(human_player)
       /\ pc = "end_turn"
  /\ op.name = "switch_player" => ~AllOffIn(op.pre)
  /\ game.winner = None => ~AllOffIn(game)

\* the AI bore its last checker off and the state the loop adopted names it
\* as the winner
C36_Witness ==
  /\ AIReturnedToLoop
  /\ OffOf(op.pre, Opponent(human_player)) < 15
  /\ OffOf(game, Opponent(human_player)) = 15
  /\ game.winner = Opponent(human_player)

====
